---------------------------- MODULE Spec2Model ----------------------------
(***************************************************************************)
(* Configuration model and input-binding resolution of the contour         *)
(* terminal front end (contour::config): the match-mode evaluator, the     *)
(* binding resolver apply(), the built-in binding table, the accumulation  *)
(* step of the YAML reader, the typed loaders, the profile lookups and the *)
(* formats and the nesting counter of the YAML writer, the typed entries,  *)
(* the tab-change throttle and the scaling of window margins.              *)
(*                                                                         *)
(* The specifications share the variables below:                           *)
(*   SpecMatch  testMatchMode over every (flags, filter) pair              *)
(*   SpecApply  apply() over bounded binding lists and queries             *)
(*   Spec       the built-in table and accumulation steps applied to it    *)
(*   SpecLoad   one load of a document into a freshly constructed Config   *)
(*   SpecRoundTrip  the writer's rendering of the binding lists, loaded    *)
(*              again by the reader                                        *)
(*   SpecReload reloads of the configuration interleaved with resolutions  *)
(*   SpecProfile  the profile lookups of a Config                          *)
(*   SpecEntry  one call of a typed loader of the reader                   *)
(*   SpecWriter the nesting counter of the writer                          *)
(*   SpecFormat one call of a format function of the writer                *)
(*   SpecTyped  the operations of ConfigEntry on entries of one type       *)
(*   SpecTabs   the tab-change throttle of the session manager             *)
(*   SpecMargins  one scaling of window margins by a factor                *)
(***************************************************************************)
EXTENDS Integers, Sequences, FiniteSets, TLC

VARIABLES
    mActual,        \* SpecMatch: the uint8_t actualModeFlags argument
    mExpected,      \* SpecMatch: the MatchModes filter argument
    mResult,        \* SpecMatch: "pending", or the BOOLEAN testMatchMode returned
    aMappings,      \* SpecApply: the binding list handed to apply()
    aQuery,         \* SpecApply: [input, modifiers, actualModeFlags]
    aResult,        \* SpecApply: "pending", or the position apply() stopped at (0 = nullptr)
    inputMappings,  \* Spec: Config::inputMappings, the three binding lists
    entries,        \* Spec: the binding entries merged so far, in file order
    config,         \* SpecLoad: the Config being loaded
    file,           \* SpecLoad: the configuration file handed to the reader
    document,       \* SpecLoad: YAMLConfigReader::doc, the parsed document
    pc,             \* SpecLoad: "start" before load(), "loaded" after it
    escaped,        \* SpecLoad: TRUE when an exception left a loadFromEntry entry point
    rtSource,       \* SpecRoundTrip: the binding lists of the Config the writer renders
    rtText,         \* SpecRoundTrip: the rendered input_mapping section, one line per record
    rtLoaded,       \* SpecRoundTrip: the binding lists of the Config loaded from rtText
    docs,           \* SpecReload: the Configs constructed so far (character list of each)
    active,         \* SpecReload: the active-Config reference, an index into docs
    held,           \* SpecReload: the pointer apply() returned, until it is executed
    ran,            \* SpecReload: the action list the input handler executed last
    pConfig,        \* SpecProfile: the Config the profile is looked up in
    pNdebug,        \* SpecProfile: TRUE when the build compiles assert() away
    pCall,          \* SpecProfile: the lookup made and how it ended
    eCall,          \* SpecEntry: the loader called, node[entry] and the prior value
    eOut,           \* SpecEntry: how the call ended and the value the entry then holds
    levels,         \* SpecWriter: Writer::Offset::levels, the static counter
    scopes,         \* SpecWriter: the scoped() calls in progress, innermost first, by writer
    wSeen,          \* SpecWriter: per writer, the indentation its last process() used
    fCall,          \* SpecFormat: the writer function called and its arguments
    fOut,           \* SpecFormat: the text the call returned
    cEntry,         \* SpecTyped: the ConfigEntry objects of one type, by name
    cLast,          \* SpecTyped: the operation made last and the entry it was made on
    sNow,           \* SpecTabs: std::chrono::steady_clock::now(), in milliseconds
    sLastTabChange, \* SpecTabs: TerminalSessionManager::_lastTabChange, in milliseconds
    sSessions,      \* SpecTabs: TerminalSessionManager::_sessions
    sActiveSession, \* SpecTabs: TerminalSessionManager::_activeSession
    sAllowed,       \* SpecTabs: what isAllowedToChangeTabs() returned last, and when
    gCall,          \* SpecMargins: the operands of operator*(WindowMargins const&, double)
    gOut            \* SpecMargins: the WindowMargins the operator returned

vars == << mActual, mExpected, mResult, aMappings, aQuery, aResult,
           inputMappings, entries, file, config, document, pc, escaped,
           rtSource, rtText, rtLoaded, docs, active, held, ran,
           pConfig, pNdebug, pCall, eCall, eOut, levels, scopes, wSeen,
           fCall, fOut,
           cEntry, cLast,
           sNow, sLastTabChange, sSessions, sActiveSession, sAllowed,
           gCall, gOut >>

matchVars == << mActual, mExpected, mResult >>
applyVars == << aMappings, aQuery, aResult >>
tableVars == << inputMappings, entries >>
loadVars  == << file, config, document, pc, escaped >>
roundTripVars == << rtSource, rtText, rtLoaded >>
reloadVars == << docs, active, held, ran >>
profileVars == << pConfig, pNdebug, pCall >>
entryVars == << eCall, eOut >>
writerVars == << levels, scopes, wSeen >>
formatVars == << fCall, fOut >>
typedVars == << cEntry, cLast >>
tabVars == << sNow, sLastTabChange, sSessions, sActiveSession, sAllowed >>
marginVars == << gCall, gOut >>

-----------------------------------------------------------------------------
(* vtbackend::MatchModes: seven flags, each Any, Enabled or Disabled.      *)

Flags == << "AlternateScreen", "AppCursor", "AppKeypad", "Select", "Insert",
            "Search", "Trace" >>

FlagSet == { Flags[i] : i \in 1 .. Len(Flags) }

Status == { "Any", "Enabled", "Disabled" }

\* The bit of each flag in the uint8_t of runtime flags: 1, 2, 4, ... 64.
FlagBits ==
    [ f \in FlagSet |-> 2 ^ ((CHOOSE k \in 1 .. Len(Flags) : Flags[k] = f) - 1) ]

FlagBit(flag) == FlagBits[flag]

\* actualModeFlags & testFlag, as a truth value.
BitSet(actualModeFlags, flag) == (actualModeFlags \div FlagBit(flag)) % 2 = 1

\* MatchModes {}: nothing enabled, nothing disabled.
MatchModesDefault == [ f \in FlagSet |-> "Any" ]

enable(modes, flag) == [ modes EXCEPT ![flag] = "Enabled" ]

disable(modes, flag) == [ modes EXCEPT ![flag] = "Disabled" ]

status(expected, flag) == expected[flag]

AllMatchModes == [ FlagSet -> Status ]

AllModeFlags == 0 .. (2 ^ Len(Flags) - 1)

-----------------------------------------------------------------------------
(* helper::testMatchMode                                                   *)

\* A comparator that reads Any as "the flag must be clear".
testMatchModeFlagAnyAsDisabled(actualModeFlags, expected, testFlag) ==
    CASE status(expected, testFlag) = "Enabled" -> BitSet(actualModeFlags, testFlag)
      [] OTHER -> ~ BitSet(actualModeFlags, testFlag)

\* A comparator that lets a Disabled flag pass whatever the bit is.
testMatchModeFlagDisabledAsAny(actualModeFlags, expected, testFlag) ==
    CASE status(expected, testFlag) = "Enabled" -> BitSet(actualModeFlags, testFlag)
      [] status(expected, testFlag) = "Disabled" -> TRUE
      [] status(expected, testFlag) = "Any" -> TRUE

testMatchModeFlag(actualModeFlags, expected, testFlag) ==
    CASE status(expected, testFlag) = "Enabled" ->
            IF ~ BitSet(actualModeFlags, testFlag) THEN FALSE ELSE TRUE
      [] status(expected, testFlag) = "Disabled" ->
            IF BitSet(actualModeFlags, testFlag) THEN FALSE ELSE TRUE
      [] status(expected, testFlag) = "Any" -> TRUE

\* The conjunction with the last flag (Trace) left out.
testMatchModeNoTrace(actualModeFlags, expected) ==
    /\ testMatchModeFlag(actualModeFlags, expected, "AlternateScreen")
    /\ testMatchModeFlag(actualModeFlags, expected, "AppCursor")
    /\ testMatchModeFlag(actualModeFlags, expected, "AppKeypad")
    /\ testMatchModeFlag(actualModeFlags, expected, "Select")
    /\ testMatchModeFlag(actualModeFlags, expected, "Insert")
    /\ testMatchModeFlag(actualModeFlags, expected, "Search")

testMatchMode(actualModeFlags, expected) ==
    /\ testMatchModeFlag(actualModeFlags, expected, "AlternateScreen")
    /\ testMatchModeFlag(actualModeFlags, expected, "AppCursor")
    /\ testMatchModeFlag(actualModeFlags, expected, "AppKeypad")
    /\ testMatchModeFlag(actualModeFlags, expected, "Select")
    /\ testMatchModeFlag(actualModeFlags, expected, "Insert")
    /\ testMatchModeFlag(actualModeFlags, expected, "Search")
    /\ testMatchModeFlag(actualModeFlags, expected, "Trace")

-----------------------------------------------------------------------------
(* vtbackend::InputBinding and contour::config::apply                      *)

\* vtbackend::Modifiers is a flag set; equality of two is equality of sets.
Modifier == { "Shift", "Alt", "Control", "Super" }

InputBinding(modes, modifiers, input, binding) ==
    [ modes |-> modes, modifiers |-> modifiers, input |-> input, binding |-> binding ]

\* The condition of the scan, with "contains" instead of equality of modifiers.
applyMatchesContains(mapping, input, modifiers, actualModeFlags) ==
    /\ mapping.modifiers \subseteq modifiers
    /\ mapping.input = input
    /\ testMatchMode(actualModeFlags, mapping.modes)

applyMatches(mapping, input, modifiers, actualModeFlags) ==
    /\ mapping.modifiers = modifiers
    /\ mapping.input = input
    /\ testMatchMode(actualModeFlags, mapping.modes)

\* The range-for of apply(), from position i on: the position of the record
\* whose binding is returned, 0 for nullptr.
RECURSIVE applyFrom(_, _, _, _, _)
applyFrom(mappings, input, modifiers, actualModeFlags, i) ==
    IF i > Len(mappings) THEN 0
    ELSE IF applyMatches(mappings[i], input, modifiers, actualModeFlags) THEN i
    ELSE applyFrom(mappings, input, modifiers, actualModeFlags, i + 1)

\* A scan that keeps going after a hit and so ends on the last matching record.
RECURSIVE applyLastFrom(_, _, _, _, _)
applyLastFrom(mappings, input, modifiers, actualModeFlags, i) ==
    IF i > Len(mappings) THEN 0
    ELSE LET rest == applyLastFrom(mappings, input, modifiers, actualModeFlags, i + 1)
         IN  IF rest # 0 THEN rest
             ELSE IF applyMatches(mappings[i], input, modifiers, actualModeFlags) THEN i
             ELSE 0

applyLast(mappings, input, modifiers, actualModeFlags) ==
    applyLastFrom(mappings, input, modifiers, actualModeFlags, 1)

\* A scan that starts at the second record.
applyIndexFromSecond(mappings, input, modifiers, actualModeFlags) ==
    applyFrom(mappings, input, modifiers, actualModeFlags, 2)

applyIndex(mappings, input, modifiers, actualModeFlags) ==
    applyFrom(mappings, input, modifiers, actualModeFlags, 1)

\* The nullptr apply() returns when the scan is exhausted.
Null == << "nullptr" >>

\* What the caller of apply() gets: the action list pointed to, or nullptr.
apply(mappings, input, modifiers, actualModeFlags) ==
    LET i == applyIndex(mappings, input, modifiers, actualModeFlags)
    IN  IF i = 0 THEN Null ELSE mappings[i].binding

-----------------------------------------------------------------------------
(* defaultInputMappings, record by record in the order of the initializer. *)

\* Select and Insert enabled, the other flags Any.
SelectInsertModes == enable(enable(MatchModesDefault, "Select"), "Insert")

\* Insert enabled.
InsertModes == enable(MatchModesDefault, "Insert")

\* AlternateScreen disabled.
NotAlternateScreenModes == disable(MatchModesDefault, "AlternateScreen")

defaultKeyMappings ==
    << InputBinding(MatchModesDefault, {"Alt"}, "Enter", << "ToggleFullscreen" >>),
       InputBinding(MatchModesDefault, {}, "Escape", << "CancelSelection" >>),
       InputBinding(MatchModesDefault, {"Shift"}, "DownArrow", << "ScrollOneDown" >>),
       InputBinding(MatchModesDefault, {"Shift"}, "End", << "ScrollToBottom" >>),
       InputBinding(MatchModesDefault, {"Shift"}, "Home", << "ScrollToTop" >>),
       InputBinding(MatchModesDefault, {"Shift"}, "PageDown", << "ScrollPageDown" >>),
       InputBinding(MatchModesDefault, {"Shift"}, "PageUp", << "ScrollPageUp" >>),
       InputBinding(MatchModesDefault, {"Shift"}, "UpArrow", << "ScrollOneUp" >>),
       InputBinding(MatchModesDefault, {}, "F3", << "FocusNextSearchMatch" >>),
       InputBinding(MatchModesDefault, {"Shift"}, "F3", << "FocusPreviousSearchMatch" >>),
       InputBinding(MatchModesDefault, {"Shift"}, "LeftArrow", << "SwitchToTabLeft" >>),
       InputBinding(MatchModesDefault, {"Shift"}, "RightArrow", << "SwitchToTabRight" >>) >>

defaultCharMappings ==
    << InputBinding(MatchModesDefault, {"Shift", "Control"}, "-", << "DecreaseFontSize" >>),
       InputBinding(MatchModesDefault, {"Shift", "Control"}, "_", << "DecreaseFontSize" >>),
       InputBinding(MatchModesDefault, {"Shift", "Control"}, "N", << "NewTerminal" >>),
       InputBinding(MatchModesDefault, {"Alt", "Control"}, "V", << "PasteClipboard{strip=true}" >>),
       InputBinding(MatchModesDefault, {"Shift", "Control"}, "V", << "PasteClipboard{strip=false}" >>),
       InputBinding(MatchModesDefault, {"Shift", "Control"}, "V", << "PasteClipboard{strip=false}" >>),
       InputBinding(MatchModesDefault, {"Alt", "Control"}, "S", << "ScreenshotVT" >>),
       InputBinding(MatchModesDefault, {"Control"}, "0", << "ResetFontSize" >>),
       InputBinding(MatchModesDefault, {"Control", "Shift"}, "T", << "CreateNewTab" >>),
       InputBinding(MatchModesDefault, {"Alt"}, "1", << "SwitchToTab{position=1}" >>),
       InputBinding(MatchModesDefault, {"Alt"}, "2", << "SwitchToTab{position=2}" >>),
       InputBinding(MatchModesDefault, {"Alt"}, "3", << "SwitchToTab{position=3}" >>),
       InputBinding(MatchModesDefault, {"Alt"}, "4", << "SwitchToTab{position=4}" >>),
       InputBinding(MatchModesDefault, {"Alt"}, "5", << "SwitchToTab{position=5}" >>),
       InputBinding(MatchModesDefault, {"Alt"}, "6", << "SwitchToTab{position=6}" >>),
       InputBinding(MatchModesDefault, {"Alt"}, "7", << "SwitchToTab{position=7}" >>),
       InputBinding(MatchModesDefault, {"Alt"}, "8", << "SwitchToTab{position=8}" >>),
       InputBinding(MatchModesDefault, {"Alt"}, "9", << "SwitchToTab{position=9}" >>),
       InputBinding(MatchModesDefault, {"Alt"}, "0", << "SwitchToTab{position=10}" >>),
       InputBinding(SelectInsertModes, {"Control"}, "C", << "CopySelection" >>),
       InputBinding(SelectInsertModes, {"Control"}, "C", << "CancelSelection" >>),
       InputBinding(SelectInsertModes, {"Control"}, "V", << "PasteClipboard{strip=false}" >>),
       InputBinding(SelectInsertModes, {"Control"}, "V", << "CancelSelection" >>),
       InputBinding(InsertModes, {"Shift", "Control"}, ",", << "OpenConfiguration" >>),
       InputBinding(InsertModes, {"Shift", "Control"}, " ", << "ViNormalMode" >>),
       InputBinding(MatchModesDefault, {"Shift", "Control"}, ",", << "OpenConfiguration" >>),
       InputBinding(MatchModesDefault, {"Shift", "Control"}, "Q", << "Quit" >>),
       InputBinding(NotAlternateScreenModes, {"Alt", "Control"}, "K", << "ScrollMarkUp" >>),
       InputBinding(NotAlternateScreenModes, {"Alt", "Control"}, "J", << "ScrollMarkDown" >>),
       InputBinding(MatchModesDefault, {"Alt", "Control"}, "O", << "OpenFileManager" >>),
       InputBinding(MatchModesDefault, {"Alt", "Control"}, ".", << "ToggleStatusLine" >>),
       InputBinding(MatchModesDefault, {"Shift", "Control"}, "F", << "SearchReverse" >>),
       InputBinding(MatchModesDefault, {"Shift", "Control"}, "H", << "NoSearchHighlight" >>) >>

defaultMouseMappings ==
    << InputBinding(MatchModesDefault, {"Control"}, "Left", << "FollowHyperlink" >>),
       InputBinding(MatchModesDefault, {}, "Middle", << "PasteSelection" >>),
       InputBinding(MatchModesDefault, {}, "WheelDown", << "ScrollDown" >>),
       InputBinding(MatchModesDefault, {}, "WheelUp", << "ScrollUp" >>),
       InputBinding(MatchModesDefault, {"Alt"}, "WheelDown", << "DecreaseOpacity" >>),
       InputBinding(MatchModesDefault, {"Alt"}, "WheelUp", << "IncreaseOpacity" >>),
       InputBinding(MatchModesDefault, {"Control"}, "WheelDown", << "DecreaseFontSize" >>),
       InputBinding(MatchModesDefault, {"Control"}, "WheelUp", << "IncreaseFontSize" >>),
       InputBinding(MatchModesDefault, {"Shift"}, "WheelDown", << "ScrollPageDown" >>),
       InputBinding(MatchModesDefault, {"Shift"}, "WheelUp", << "ScrollPageUp" >>) >>

defaultInputMappings ==
    [ keyMappings |-> defaultKeyMappings,
      charMappings |-> defaultCharMappings,
      mouseMappings |-> defaultMouseMappings ]

\* The three binding lists of InputMappings.
Lists == { "keyMappings", "charMappings", "mouseMappings" }

-----------------------------------------------------------------------------
(* Values the variables of the other specifications rest at.               *)

NotDone == [ done |-> FALSE, value |-> FALSE ]

NoPosition == [ done |-> FALSE, value |-> 0, binding |-> Null ]

NoQuery == [ input |-> "", modifiers |-> {}, actualModeFlags |-> 0 ]

MatchIdle == mActual = 0 /\ mExpected = MatchModesDefault /\ mResult = NotDone

ApplyIdle == aMappings = << >> /\ aQuery = NoQuery /\ aResult = NoPosition

TableIdle == inputMappings = defaultInputMappings /\ entries = << >>

-----------------------------------------------------------------------------
(* SpecMatch: one call of helper::testMatchMode(actualModeFlags, expected) *)
(* for every value of the seven flag bits and every filter.                *)

MatchStart ==
    /\ mActual \in AllModeFlags
    /\ mExpected \in AllMatchModes
    /\ mResult = NotDone

Match ==
    /\ ~ mResult.done
    /\ mResult' = [ done |-> TRUE, value |-> testMatchMode(mActual, mExpected) ]
    /\ UNCHANGED << mActual, mExpected >>

\* The runtime flags as a set of flag names: the set whose bits add up to n.
RECURSIVE SumBits(_)
SumBits(S) ==
    IF S = {} THEN 0
    ELSE LET f == CHOOSE x \in S : TRUE IN FlagBits[f] + SumBits(S \ {f})

ActiveFlags == [ n \in AllModeFlags |-> CHOOSE S \in SUBSET FlagSet : SumBits(S) = n ]

\* C5: testMatchMode returns true exactly when, for each of the seven flags,
\* the filter says Any, or Enabled with the flag's bit set in actualFlags, or
\* Disabled with the bit clear; it returns a truth value for every one of the
\* 2^7 flag values and 3^7 filters.
C5_TestMatchModeIffAllSeven ==
    mResult.done =>
        /\ mResult.value \in BOOLEAN
        /\ mResult.value <=>
              \A f \in FlagSet :
                 \/ mExpected[f] = "Any"
                 \/ mExpected[f] = "Enabled" /\ f \in ActiveFlags[mActual]
                 \/ mExpected[f] = "Disabled" /\ f \notin ActiveFlags[mActual]

\* Enabled, Disabled and Any flags in one filter, matched by Select|Insert.
C5_Witness ==
    /\ mResult.done
    /\ mExpected = disable(enable(SelectInsertModes, "Trace"), "AlternateScreen")
    /\ mActual = 88
    /\ mResult.value = TRUE

\* C7: a filter whose seven flags are all Any (MatchModes {}) matches every
\* one of the 2^7 combinations of runtime flags.
C7_AllAnyMatchesEverything ==
    (mResult.done /\ \A f \in FlagSet : mExpected[f] = "Any") => mResult.value = TRUE

\* The all-Any filter evaluated against all seven flags set.
C7_Witness ==
    /\ mResult.done
    /\ mExpected = MatchModesDefault
    /\ mActual = 127
    /\ mResult.value = TRUE

-----------------------------------------------------------------------------
(* SpecApply: one call of apply(mappings, input, modifiers, flags) on a    *)
(* bounded binding list, or on the built-in character list.                *)

MaxLen == 2

ApplyModes == { MatchModesDefault, InsertModes, NotAlternateScreenModes }

ApplyModifiers == { {"Control"}, {"Control", "Shift"} }

ApplyInputs == { "C", "V" }

ApplyActions == { "CopySelection", "CancelSelection" }

\* Runtime flags of a query: none, AlternateScreen, Insert, Select|Insert.
ApplyFlags == { 0, 1, 16, 24 }

ApplyRecords ==
    { InputBinding(m, k, i, << a >>) :
        m \in ApplyModes, k \in ApplyModifiers, i \in ApplyInputs, a \in ApplyActions }

ApplyLists ==
    UNION { [ 1 .. n -> ApplyRecords ] : n \in 0 .. MaxLen } \cup { defaultCharMappings }

ApplyQueries ==
    [ input : ApplyInputs, modifiers : ApplyModifiers, actualModeFlags : ApplyFlags ]

\* Queries on the built-in key list, under every combination of runtime flags.
KeyQueries ==
    [ input : { "Enter", "Escape" }, modifiers : { {"Alt"}, {}, {"Alt", "Shift"} },
      actualModeFlags : AllModeFlags ]

\* Pairs of records for Control+'C' whose filters constrain AlternateScreen
\* and Insert in every way, and the queries on them.
OverlapModes ==
    { MatchModesDefault, InsertModes, NotAlternateScreenModes,
      enable(MatchModesDefault, "AlternateScreen") }

OverlapLists ==
    { << InputBinding(m1, {"Control"}, "C", << "CopySelection" >>),
         InputBinding(m2, {"Control"}, "C", << "CancelSelection" >>) >> :
         m1 \in OverlapModes, m2 \in OverlapModes }

OverlapQueries ==
    [ input : { "C" }, modifiers : { {"Control"} }, actualModeFlags : { 0, 1, 16, 17 } ]

\* Shift+Control+',' on the built-in character list.
CommaQueries ==
    [ input : { "," }, modifiers : { {"Shift", "Control"} }, actualModeFlags : ApplyFlags ]

ApplyStart ==
    /\ \/ aMappings \in ApplyLists /\ aQuery \in ApplyQueries
       \/ aMappings = defaultKeyMappings /\ aQuery \in KeyQueries
       \/ aMappings \in OverlapLists /\ aQuery \in OverlapQueries
       \/ aMappings = defaultCharMappings /\ aQuery \in CommaQueries
    /\ aResult = NoPosition

Apply ==
    /\ ~ aResult.done
    /\ aResult' =
          [ done |-> TRUE,
            value |-> applyIndex(aMappings, aQuery.input, aQuery.modifiers,
                                 aQuery.actualModeFlags),
            binding |-> apply(aMappings, aQuery.input, aQuery.modifiers,
                              aQuery.actualModeFlags) ]
    /\ UNCHANGED << aMappings, aQuery >>

\* The positions of the records that satisfy all three conditions of the query.
aHits ==
    { i \in 1 .. Len(aMappings) :
        /\ aMappings[i].modifiers = aQuery.modifiers
        /\ aMappings[i].input = aQuery.input
        /\ testMatchMode(aQuery.actualModeFlags, aMappings[i].modes) }

\* C1: apply scans the list in stored order and returns the action list of the
\* first record whose modifier set, trigger and mode filter all match the query;
\* it returns nullptr exactly when no record satisfies all three.
C1_ApplyReturnsFirstMatch ==
    aResult.done =>
        /\ (aHits = {}) <=> (aResult.value = 0)
        /\ aHits # {} =>
              /\ aResult.value \in aHits
              /\ \A i \in aHits : aResult.value <= i
        /\ aResult.binding =
              IF aHits = {} THEN Null
              ELSE aMappings[CHOOSE i \in aHits : \A j \in aHits : i <= j].binding

\* Two records match the query and carry different action lists; the first is returned.
C1_Witness ==
    /\ aResult.done
    /\ Len(aMappings) = 2
    /\ aHits = { 1, 2 }
    /\ aMappings[1].binding # aMappings[2].binding
    /\ aResult.value = 1
    /\ aResult.binding = aMappings[1].binding

\* C6: modifier matching is exact set equality: the record apply returns never
\* has a modifier set that is a strict subset or a strict superset of the
\* query's ({Control} against {Control, Shift} and the other way round).
C6_ExactModifierMatch ==
    (aResult.done /\ aResult.value # 0) =>
        LET m == aMappings[aResult.value].modifiers
        IN  /\ ~ (m \subseteq aQuery.modifiers /\ m # aQuery.modifiers)
            /\ ~ (aQuery.modifiers \subseteq m /\ m # aQuery.modifiers)

\* A {Control} record with the query's trigger and a matching filter is passed
\* over by a {Control, Shift} query, which ends on the {Control, Shift} record.
C6_Witness ==
    /\ aResult.done
    /\ Len(aMappings) = 2
    /\ aQuery.modifiers = {"Control", "Shift"}
    /\ aMappings[1].modifiers = {"Control"}
    /\ aMappings[1].input = aQuery.input
    /\ testMatchMode(aQuery.actualModeFlags, aMappings[1].modes)
    /\ aMappings[2].modifiers = {"Control", "Shift"}
    /\ aResult.value = 2

\* C15: with only the built-in bindings, resolving the key Enter with the
\* modifier set {Alt} returns [ToggleFullscreen] under every combination of
\* runtime flags.
C15_AltEnterTogglesFullscreen ==
    ( /\ aResult.done
      /\ aMappings = defaultInputMappings.keyMappings
      /\ aQuery.input = "Enter"
      /\ aQuery.modifiers = {"Alt"} ) =>
        aResult.binding = << "ToggleFullscreen" >>

\* Alt+Enter has been resolved with all seven runtime flags set.
C15_Witness ==
    /\ aResult.done
    /\ aMappings = defaultInputMappings.keyMappings
    /\ aQuery = [ input |-> "Enter", modifiers |-> {"Alt"}, actualModeFlags |-> 127 ]
    /\ aResult.binding = << "ToggleFullscreen" >>

\* Two filters some combination of runtime flags satisfies together: no flag
\* is Enabled in one and Disabled in the other.
Compatible(m1, m2) ==
    \A f \in FlagSet : { m1[f], m2[f] } # { "Enabled", "Disabled" }

\* C18 (as claimed): two distinct records of a list both match one query
\* (modifier set, trigger, runtime flags) only if they have the same (filter,
\* modifiers, trigger) triple.
C18_OnlyIdenticalTriplesOverlap ==
    aResult.done =>
        \A i, j \in aHits :
           i # j => /\ aMappings[i].modes = aMappings[j].modes
                    /\ aMappings[i].modifiers = aMappings[j].modifiers
                    /\ aMappings[i].input = aMappings[j].input

\* C18 (amended): two distinct records of a list both match one query only if
\* they have the same modifier set and trigger and no flag is Enabled in the
\* filter of one and Disabled in the filter of the other; the filters need not
\* be identical, and of the records that match apply returns the first in list
\* order.
C18_OverlapNeedsCompatibleFilters ==
    aResult.done =>
        /\ \A i, j \in aHits :
              i # j => /\ aMappings[i].modifiers = aMappings[j].modifiers
                       /\ aMappings[i].input = aMappings[j].input
                       /\ Compatible(aMappings[i].modes, aMappings[j].modes)
        /\ \A i \in aHits : aResult.value # 0 /\ aResult.value <= i

\* Shift+Control+',' in insert mode on the built-in character list: the record
\* with the Insert filter and the one with the all-Any filter both match, and
\* the first is returned.
C18_Witness ==
    /\ aResult.done
    /\ aMappings = defaultInputMappings.charMappings
    /\ aQuery = [ input |-> ",", modifiers |-> {"Shift", "Control"},
                  actualModeFlags |-> 16 ]
    /\ \E i, j \in aHits :
          /\ i < j
          /\ aMappings[i].modes = InsertModes
          /\ aMappings[j].modes = MatchModesDefault
          /\ aResult.value = i

-----------------------------------------------------------------------------
(* Spec: Config::inputMappings starts as defaultInputMappings; every       *)
(* binding entry of the document is merged by appendOrCreateBinding.       *)

MaxEntries == 2

EntryModes == { MatchModesDefault, SelectInsertModes }

EntryModifiers == { {"Control"}, {"Shift", "Control"} }

EntryInputs ==
    [ keyMappings |-> { "F3", "F5" },
      charMappings |-> { "C", "," },
      mouseMappings |-> { "Left", "Right" } ]

EntryActions == { "SendChars", "WriteScreen" }

\* Runtime flags of the queries: every combination of the three flags a filter
\* of the table or of an entry mentions (AlternateScreen, Select, Insert).
QueryFlags == { 0, 1, 8, 9, 16, 17, 24, 25 }

\* vtbackend::match: the stored record has the identical triple.
match(binding, modes, modifier, input) ==
    /\ binding.modes = modes
    /\ binding.modifiers = modifier
    /\ binding.input = input

\* An accumulation step that puts the action in front of the existing ones.
RECURSIVE appendOrCreateFromFront(_, _, _, _, _, _)
appendOrCreateFromFront(bindings, modes, modifier, input, action, i) ==
    IF i > Len(bindings)
    THEN Append(bindings, InputBinding(modes, modifier, input, << action >>))
    ELSE IF match(bindings[i], modes, modifier, input)
    THEN [ bindings EXCEPT ![i].binding = << action >> \o @ ]
    ELSE appendOrCreateFromFront(bindings, modes, modifier, input, action, i + 1)

\* An accumulation step that puts a new record in front of the list.
RECURSIVE appendOrCreateFromPrepend(_, _, _, _, _, _)
appendOrCreateFromPrepend(bindings, modes, modifier, input, action, i) ==
    IF i > Len(bindings)
    THEN << InputBinding(modes, modifier, input, << action >>) >> \o bindings
    ELSE IF match(bindings[i], modes, modifier, input)
    THEN [ bindings EXCEPT ![i].binding = Append(@, action) ]
    ELSE appendOrCreateFromPrepend(bindings, modes, modifier, input, action, i + 1)

\* An accumulation step whose new record starts with no action.
RECURSIVE appendOrCreateFromEmpty(_, _, _, _, _, _)
appendOrCreateFromEmpty(bindings, modes, modifier, input, action, i) ==
    IF i > Len(bindings)
    THEN Append(bindings, InputBinding(modes, modifier, input, << >>))
    ELSE IF match(bindings[i], modes, modifier, input)
    THEN [ bindings EXCEPT ![i].binding = Append(@, action) ]
    ELSE appendOrCreateFromEmpty(bindings, modes, modifier, input, action, i + 1)

RECURSIVE appendOrCreateFrom(_, _, _, _, _, _)
appendOrCreateFrom(bindings, modes, modifier, input, action, i) ==
    IF i > Len(bindings)
    THEN Append(bindings, InputBinding(modes, modifier, input, << action >>))
    ELSE IF match(bindings[i], modes, modifier, input)
    THEN [ bindings EXCEPT ![i].binding = Append(@, action) ]
    ELSE appendOrCreateFrom(bindings, modes, modifier, input, action, i + 1)

\* An accumulation step that never looks for an existing record.
appendAlwaysCreates(bindings, modes, modifier, input, action) ==
    Append(bindings, InputBinding(modes, modifier, input, << action >>))

appendOrCreateBinding(bindings, modes, modifier, input, action) ==
    appendOrCreateFrom(bindings, modes, modifier, input, action, 1)

TableStart ==
    /\ inputMappings = defaultInputMappings
    /\ entries = << >>

AppendOrCreateBinding ==
    \E list \in Lists, modes \in EntryModes, modifier \in EntryModifiers,
       action \in EntryActions :
       \E input \in EntryInputs[list] :
          /\ Len(entries) < MaxEntries
          /\ inputMappings' =
                [ inputMappings EXCEPT
                    ![list] = appendOrCreateBinding(@, modes, modifier, input, action) ]
          /\ entries' =
                Append(entries,
                       [ list |-> list, modes |-> modes, modifiers |-> modifier,
                         input |-> input, action |-> action ])

-----------------------------------------------------------------------------
(* Claims about the binding table.                                         *)

SameTriple(a, b) ==
    /\ a.modes = b.modes
    /\ a.modifiers = b.modifiers
    /\ a.input = b.input

\* Position of the first record of a list with the triple of e, 0 if none.
FirstWith(bindings, e) ==
    IF \E i \in 1 .. Len(bindings) : SameTriple(bindings[i], e)
    THEN CHOOSE i \in 1 .. Len(bindings) :
            /\ SameTriple(bindings[i], e)
            /\ \A j \in 1 .. (i - 1) : ~ SameTriple(bindings[j], e)
    ELSE 0

\* The actions the document gives for the list and triple of e, in file order.
RECURSIVE ActionsFor(_, _)
ActionsFor(e, n) ==
    IF n = 0 THEN << >>
    ELSE IF entries[n].list = e.list /\ SameTriple(entries[n], e)
         THEN Append(ActionsFor(e, n - 1), entries[n].action)
         ELSE ActionsFor(e, n - 1)

\* The action list the built-in table has for the triple of e (first record).
BuiltinFor(e) ==
    LET p == FirstWith(defaultInputMappings[e.list], e)
    IN  IF p = 0 THEN << >> ELSE defaultInputMappings[e.list][p].binding

\* Pairs of document entries with the same list and triple and distinct actions.
EntryPairs ==
    { pr \in (1 .. Len(entries)) \X (1 .. Len(entries)) :
        /\ pr[1] < pr[2]
        /\ entries[pr[1]].list = entries[pr[2]].list
        /\ SameTriple(entries[pr[1]], entries[pr[2]])
        /\ entries[pr[1]].action # entries[pr[2]].action }

\* C2 (as claimed): in every state of a binding list, the built-in table
\* included, no two records of one list have the same (filter, modifiers,
\* trigger) triple.
C2_NoDuplicateTriples ==
    \A list \in Lists :
       \A i, j \in 1 .. Len(inputMappings[list]) :
          i # j => ~ SameTriple(inputMappings[list][i], inputMappings[list][j])

\* C3 (as claimed): two entries with the same triple and distinct actions A1
\* then A2: resolve for that modifiers/trigger under flags matching the filter
\* returns exactly [A1, A2].
C3_ResolveReturnsExactlyA1A2 ==
    \A pr \in EntryPairs :
       LET e == entries[pr[1]]
       IN  \A fl \in QueryFlags :
              testMatchMode(fl, e.modes) =>
                 apply(inputMappings[e.list], e.input, e.modifiers, fl)
                    = << e.action, entries[pr[2]].action >>

\* C3 (amended): two entries with the same triple and distinct actions A1 then
\* A2: the first record with that triple holds the actions the built-in table
\* has for the triple (if any) followed by the document's actions for it in
\* file order, so A1 comes before A2; resolve under flags matching the filter
\* returns that list unless an earlier record, with another filter, matches the
\* query first.
C3_ResolveReturnsAccumulatedList ==
    \A pr \in EntryPairs :
       LET e == entries[pr[1]]
           bl == inputMappings[e.list]
           p == FirstWith(bl, e)
           want == BuiltinFor(e) \o ActionsFor(e, Len(entries))
       IN  /\ p # 0
           /\ bl[p].binding = want
           /\ \E m, n \in 1 .. Len(want) :
                 m < n /\ want[m] = e.action /\ want[n] = entries[pr[2]].action
           /\ \A fl \in QueryFlags :
                 testMatchMode(fl, e.modes) =>
                    LET r == applyIndex(bl, e.input, e.modifiers, fl)
                    IN  /\ r \in 1 .. p
                        /\ r = p => apply(bl, e.input, e.modifiers, fl) = want
                        /\ r < p => bl[r].modes # e.modes

\* Two entries for a triple the table did not have: resolve returns [A1, A2].
C3_Witness ==
    \E pr \in EntryPairs :
       LET e == entries[pr[1]]
       IN  /\ BuiltinFor(e) = << >>
           /\ \A fl \in QueryFlags :
                 testMatchMode(fl, e.modes) =>
                    apply(inputMappings[e.list], e.input, e.modifiers, fl)
                       = << e.action, entries[pr[2]].action >>

\* Is p a prefix of q
IsPrefix(p, q) == Len(p) <= Len(q) /\ \A k \in 1 .. Len(p) : p[k] = q[k]

\* C4 (as claimed): the built-in records are in the table before any entry is
\* merged; for every entry whose triple is that of a built-in record, resolve
\* for that modifiers/trigger under flags matching the filter returns the
\* built-in actions followed by the user's actions; no built-in record loses
\* or changes an action.
C4_UserBindingExtendsBuiltin ==
    /\ \A list \in Lists :
          /\ Len(inputMappings[list]) >= Len(defaultInputMappings[list])
          /\ \A i \in 1 .. Len(defaultInputMappings[list]) :
                /\ SameTriple(inputMappings[list][i], defaultInputMappings[list][i])
                /\ IsPrefix(defaultInputMappings[list][i].binding,
                            inputMappings[list][i].binding)
    /\ \A n \in 1 .. Len(entries) :
          LET e == entries[n]
          IN  FirstWith(defaultInputMappings[e.list], e) # 0 =>
                 \A fl \in QueryFlags :
                    testMatchMode(fl, e.modes) =>
                       apply(inputMappings[e.list], e.input, e.modifiers, fl)
                          = BuiltinFor(e) \o ActionsFor(e, Len(entries))

\* C17: an accumulation step appends the action to the end of the action list
\* of the first record of the entry's list that has the entry's triple and
\* changes nothing else; if no record has the triple it appends one record
\* (filter, modifiers, trigger, [action]) at the end of that list. The other
\* two lists are unchanged.
C17_AccumulationStep ==
    [][ LET e == entries'[Len(entries')]
            old == inputMappings[e.list]
            new == inputMappings'[e.list]
            p == FirstWith(old, e)
        IN  /\ entries' = Append(entries, e)
            /\ \A l \in Lists \ { e.list } : inputMappings'[l] = inputMappings[l]
            /\ IF p # 0
               THEN /\ Len(new) = Len(old)
                    /\ SameTriple(new[p], old[p])
                    /\ new[p].binding = Append(old[p].binding, e.action)
                    /\ \A k \in (1 .. Len(old)) \ { p } : new[k] = old[k]
               ELSE new = Append(old, InputBinding(e.modes, e.modifiers, e.input,
                                                   << e.action >>))
      ]_vars

\* Two steps were taken: the first extended a built-in record, the second
\* created a record at the end of its list.
C17_Witness ==
    /\ Len(entries) = 2
    /\ LET e == entries[1]
           p == FirstWith(defaultInputMappings[e.list], e)
       IN  /\ p # 0
           /\ inputMappings[e.list][p].binding
                 = Append(defaultInputMappings[e.list][p].binding, e.action)
    /\ LET e == entries[2]
           l == inputMappings[e.list]
       IN  /\ FirstWith(defaultInputMappings[e.list], e) = 0
           /\ ~ SameTriple(entries[1], e)
           /\ Len(l) = Len(defaultInputMappings[e.list]) + 1
           /\ l[Len(l)] = InputBinding(e.modes, e.modifiers, e.input, << e.action >>)

-----------------------------------------------------------------------------
(* Config, TerminalProfile and the document the reader is given.           *)
(* Of the schema the model keeps two document-level entries (live,         *)
(* ptyReadBufferSize), the default profile name, the profiles map, and two *)
(* entries of a profile (maximized, smoothLineScrolling).                  *)

\* TerminalProfile {}
DefaultProfile == [ maximized |-> FALSE, smoothLineScrolling |-> 100 ]

\* A Config whose profiles map is constructed empty.
DefaultConfigNoProfiles ==
    [ live |-> FALSE,
      ptyReadBufferSize |-> 16384,
      defaultProfileName |-> "main",
      profiles |-> [ n \in { } |-> DefaultProfile ] ]

\* Config {}: the profiles map holds "main", and "main" is the default profile.
DefaultConfig ==
    [ live |-> FALSE,
      ptyReadBufferSize |-> 16384,
      defaultProfileName |-> "main",
      profiles |-> [ n \in { "main" } |-> DefaultProfile ] ]

\* node[entry] of a key the document does not have.
Absent == "~"

\* Scalars of a document: well-typed ones, and one no conversion accepts.
BoolScalars == { "true", "false" }
IntScalars == { "7", "250" }
BadScalar == "abc"

\* child.as<bool>() and child.as<int>(): the value, or a thrown exception.
asBool(raw) ==
    IF raw \in BoolScalars THEN [ ok |-> TRUE, value |-> (raw = "true") ]
    ELSE [ ok |-> FALSE, value |-> FALSE ]

asInt(raw) ==
    IF raw = "7" THEN [ ok |-> TRUE, value |-> 7 ]
    ELSE IF raw = "250" THEN [ ok |-> TRUE, value |-> 250 ]
    ELSE [ ok |-> FALSE, value |-> 0 ]

\* The outcome of one loader call: the value the entry holds afterwards, and
\* whether the call ended by throwing.
Returned(v) == [ threw |-> FALSE, value |-> v ]
Threw(v) == [ threw |-> TRUE, value |-> v ]

\* loadFromEntry(node, entry, T& where) for scalar T: assigns only if the key
\* exists; as<T>() throws before the assignment.
loadFromEntryBool(raw, where) ==
    IF raw = Absent THEN Returned(where)
    ELSE IF asBool(raw).ok THEN Returned(asBool(raw).value)
    ELSE Threw(where)

loadFromEntryInt(raw, where) ==
    IF raw = Absent THEN Returned(where)
    ELSE IF asInt(raw).ok THEN Returned(asInt(raw).value)
    ELSE Threw(where)

\* loadFromEntry(node, entry, std::chrono::milliseconds& where)
loadFromEntryMilliseconds(raw, where) ==
    IF raw = Absent THEN Returned(where)
    ELSE IF asInt(raw).ok THEN Returned(asInt(raw).value)
    ELSE Threw(where)

\* loadFromEntry(node, entry, std::string& where)
loadFromEntryString(raw, where) ==
    IF raw = Absent THEN Returned(where) ELSE Returned(raw)

\* loadFromEntry(node, entry, ConfigEntry&): try { load } catch { log }.
loadFromEntryCaught(outcome) == Returned(outcome.value)

\* loadFromEntry(entry, ConfigEntry&, args...): forwards to the loader on doc.
loadFromEntryDoc(outcome) == outcome

-----------------------------------------------------------------------------
(* The profile loader, the profiles-map loader and load().                 *)

MaxProfiles == 2

ProfileNames == { "main", "work", "dev" }

\* One entry of the profiles section: its key and the keys it has.
ProfileEntries ==
    [ name : ProfileNames,
      maximized : { Absent, "true", BadScalar },
      smooth_line_scrolling : { Absent, "7", BadScalar } ]

\* child[name] of a name the section does not have.
NoEntry == [ name |-> Absent, maximized |-> Absent, smooth_line_scrolling |-> Absent ]

\* The profiles key of a document: absent, a scalar, or a map whose entries
\* are listed in file order under distinct names.
Sections ==
    { [ kind |-> "absent", entries |-> << >> ], [ kind |-> "scalar", entries |-> << >> ] }
    \cup
    { [ kind |-> "map", entries |-> es ] :
        es \in { q \in UNION { [ 1 .. n -> ProfileEntries ] : n \in 0 .. MaxProfiles } :
                   \A i, j \in 1 .. Len(q) : i # j => q[i].name # q[j].name } }

Documents ==
    [ live : { Absent, "true", BadScalar },
      pty_read_buffer_size : { Absent, "7", BadScalar },
      default_profile : { Absent, "main", "work" },
      profiles : Sections ]

EmptyDocument ==
    [ live |-> Absent, pty_read_buffer_size |-> Absent, default_profile |-> Absent,
      profiles |-> [ kind |-> "absent", entries |-> << >> ] ]

\* node[name] within the profiles map.
EntryOf(section, name) ==
    IF \E i \in 1 .. Len(section.entries) : section.entries[i].name = name
    THEN section.entries[CHOOSE i \in 1 .. Len(section.entries) :
                            section.entries[i].name = name]
    ELSE NoEntry

\* where[name] = v on an unordered_map.
MapPut(where, name, v) ==
    [ n \in DOMAIN where \cup { name } |-> IF n = name THEN v ELSE where[n] ]

\* where[name]: the stored profile, a default-constructed one if there is none.
MapAt(where, name) == IF name \in DOMAIN where THEN where[name] ELSE DefaultProfile

\* loadFromEntry(node, entry, TerminalProfile& where): every entry of the
\* profile goes through the catching entry point.
loadFromEntryProfile(node, where) ==
    IF node = NoEntry THEN where
    ELSE [ maximized |->
              loadFromEntryCaught(loadFromEntryBool(node.maximized, where.maximized)).value,
           smoothLineScrolling |->
              loadFromEntryCaught(
                 loadFromEntryMilliseconds(node.smooth_line_scrolling,
                                           where.smoothLineScrolling)).value ]

\* The for loop over the entries of the profiles map, from entry i on.
RECURSIVE loadProfilesFrom(_, _, _, _)
loadProfilesFrom(section, where, defaultProfileName, i) ==
    IF i > Len(section.entries) THEN where
    ELSE LET name == section.entries[i].name
         IN  IF name = defaultProfileName
             THEN loadProfilesFrom(section, where, defaultProfileName, i + 1)
             ELSE LET inherited == MapPut(where, name, where[defaultProfileName])
                      loaded == loadFromEntryProfile(EntryOf(section, name), inherited[name])
                  IN  loadProfilesFrom(section, MapPut(inherited, name, loaded),
                                       defaultProfileName, i + 1)

\* A loop that loads the default profile where the section lists it, so that
\* a profile listed before it inherits what the map held until then.
RECURSIVE loadProfilesInFileOrderFrom(_, _, _, _)
loadProfilesInFileOrderFrom(section, where, defaultProfileName, i) ==
    IF i > Len(section.entries) THEN where
    ELSE LET name == section.entries[i].name
             inherited == IF name = defaultProfileName THEN where
                          ELSE MapPut(where, name, MapAt(where, defaultProfileName))
             loaded == loadFromEntryProfile(EntryOf(section, name), MapAt(inherited, name))
         IN  loadProfilesInFileOrderFrom(section, MapPut(inherited, name, loaded),
                                         defaultProfileName, i + 1)

loadFromEntryProfilesInFileOrder(section, where, defaultProfileName) ==
    IF section.kind = "map"
    THEN loadProfilesInFileOrderFrom(section, where, defaultProfileName, 1)
    ELSE where

\* loadFromEntry(node, entry, unordered_map<string, TerminalProfile>& where,
\*               defaultProfileName)
loadFromEntryProfiles(section, where, defaultProfileName) ==
    IF section.kind = "map"
    THEN LET base == loadFromEntryProfile(EntryOf(section, defaultProfileName),
                                          MapAt(where, defaultProfileName))
         IN  loadProfilesFrom(section, MapPut(where, defaultProfileName, base),
                              defaultProfileName, 1)
    ELSE where

\* load(Config&): the document-level entries one after the other through
\* loadFromEntry(entry, ConfigEntry&, args...); an exception that leaves one of
\* the calls ends the sequence.
load(c, doc) ==
    LET live == loadFromEntryDoc(loadFromEntryBool(doc.live, c.live))
        pty == loadFromEntryDoc(loadFromEntryInt(doc.pty_read_buffer_size,
                                                 c.ptyReadBufferSize))
        name == loadFromEntryDoc(loadFromEntryString(doc.default_profile,
                                                     c.defaultProfileName))
        c1 == [ c EXCEPT !.live = live.value ]
        c2 == [ c1 EXCEPT !.ptyReadBufferSize = pty.value ]
        c3 == [ c2 EXCEPT !.defaultProfileName = name.value ]
        c4 == [ c3 EXCEPT !.profiles =
                   loadFromEntryProfiles(doc.profiles, c3.profiles, c3.defaultProfileName) ]
    IN  IF live.threw THEN [ config |-> c1, escaped |-> TRUE ]
        ELSE IF pty.threw THEN [ config |-> c2, escaped |-> TRUE ]
        ELSE IF name.threw THEN [ config |-> c3, escaped |-> TRUE ]
        ELSE [ config |-> c4, escaped |-> FALSE ]

\* A file YAML::LoadFile parses (node is what it returns), or one it rejects.
Files ==
    [ wellFormed : { TRUE }, node : Documents ]
    \cup { [ wellFormed |-> FALSE, node |-> EmptyDocument ] }

\* A default-constructed YAML::Node: every node[entry] of it is undefined.
NullNode == EmptyDocument

\* A reader whose constructor lets the parse exception out.
YAMLConfigReaderNoCatch(f) ==
    IF f.wellFormed THEN [ doc |-> f.node, threw |-> FALSE ]
    ELSE [ doc |-> NullNode, threw |-> TRUE ]

\* YAMLConfigReader(filename, log): doc = YAML::LoadFile(...) inside try/catch;
\* on an exception doc keeps its default-constructed value.
YAMLConfigReader(f) ==
    IF f.wellFormed THEN [ doc |-> f.node, threw |-> FALSE ]
    ELSE [ doc |-> NullNode, threw |-> FALSE ]

LoadIdle ==
    /\ file = [ wellFormed |-> TRUE, node |-> EmptyDocument ]
    /\ config = DefaultConfig
    /\ document = EmptyDocument
    /\ pc = "start"
    /\ escaped = FALSE

\* loadConfigFromFile(fileName): a Config is constructed, the reader is
\* constructed on the file and load() fills the Config.
LoadConfigFromFile ==
    /\ pc = "start"
    /\ \E f \in Files :
          LET reader == YAMLConfigReader(f)
          IN  /\ file' = f
              /\ document' = reader.doc
              /\ config' = IF reader.threw THEN config
                            ELSE load(config, reader.doc).config
              /\ escaped' = (reader.threw \/ load(config, reader.doc).escaped)
    /\ pc' = "loaded"

-----------------------------------------------------------------------------
(* SpecRoundTrip: the writer renders the binding lists of a Config and the *)
(* reader loads the rendered text into a freshly constructed Config.       *)

MaxSourceLen == 1

\* The names the writer prints for a modifier set, in enumeration order.
ModifierOrder == << "Shift", "Alt", "Control", "Super" >>

\* YAMLConfigWriter::format(vtbackend::Modifiers const&): the names of the
\* flags that are set, by rising bit, to be joined with ','.
formatModifiers(flags) == SelectSeq(ModifierOrder, LAMBDA m : m \in flags)

\* parseModifier: the set of the names listed under mods.
parseModifier(names) == { names[i] : i \in 1 .. Len(names) }

\* v.modes.any(): the filter constrains at least one flag.
modesAny(modes) == \E f \in FlagSet : modes[f] # "Any"

\* The text of a filter: the constrained flags in flag order, a disabled flag
\* marked as negated.
RECURSIVE formatModesFrom(_, _)
formatModesFrom(modes, i) ==
    IF i > Len(Flags) THEN << >>
    ELSE (IF modes[Flags[i]] = "Any" THEN << >>
          ELSE << [ flag |-> Flags[i], negated |-> (modes[Flags[i]] = "Disabled") ] >>)
         \o formatModesFrom(modes, i + 1)

formatModes(modes) == formatModesFrom(modes, 1)

\* parseMatchModes: a filter with every named flag enabled, or disabled if negated.
RECURSIVE parseMatchModesFrom(_, _)
parseMatchModesFrom(text, i) ==
    IF i = 0 THEN MatchModesDefault
    ELSE IF text[i].negated
         THEN disable(parseMatchModesFrom(text, i - 1), text[i].flag)
         ELSE enable(parseMatchModesFrom(text, i - 1), text[i].flag)

parseMatchModes(text) == parseMatchModesFrom(text, Len(text))

\* YAMLConfigWriter::format(KeyInputMapping): mods, key and binding[0].
formatKeyInputMapping(v) ==
    [ tag |-> "key", mods |-> formatModifiers(v.modifiers), trigger |-> v.input,
      action |-> v.binding[1], mode |-> << >> ]

\* YAMLConfigWriter::format(CharInputMapping): mods, key and binding[0], and
\* the filter when it constrains a flag.
formatCharInputMapping(v) ==
    [ tag |-> "key", mods |-> formatModifiers(v.modifiers), trigger |-> v.input,
      action |-> v.binding[1],
      mode |-> IF modesAny(v.modes) THEN formatModes(v.modes) ELSE << >> ]

\* YAMLConfigWriter::format(MouseInputMapping): mods, mouse and binding[0].
formatMouseInputMapping(v) ==
    [ tag |-> "mouse", mods |-> formatModifiers(v.modifiers), trigger |-> v.input,
      action |-> v.binding[1], mode |-> << >> ]

\* The input_mapping section of the rendered document: one line per record,
\* the key records, then the character records, then the mouse records.
renderInputMappings(m) ==
    [ i \in 1 .. Len(m.keyMappings) |-> formatKeyInputMapping(m.keyMappings[i]) ]
    \o [ i \in 1 .. Len(m.charMappings) |-> formatCharInputMapping(m.charMappings[i]) ]
    \o [ i \in 1 .. Len(m.mouseMappings) |-> formatMouseInputMapping(m.mouseMappings[i]) ]

\* parseKey: the names that denote a vtbackend::Key.
KeyNames == { defaultKeyMappings[i].input : i \in 1 .. Len(defaultKeyMappings) }

\* tryAddKey / tryAddMouse: the list an entry of the section goes to.
listOf(line) ==
    IF line.tag = "mouse" THEN "mouseMappings"
    ELSE IF line.trigger \in KeyNames THEN "keyMappings"
    ELSE "charMappings"

\* loadFromEntry(node, entry, InputMappings& where): every entry of the
\* section, in file order, is merged by appendOrCreateBinding.
RECURSIVE loadInputMappingsFrom(_, _, _)
loadInputMappingsFrom(text, where, i) ==
    IF i > Len(text) THEN where
    ELSE loadInputMappingsFrom(
            text,
            [ where EXCEPT
                ![listOf(text[i])] =
                    appendOrCreateBinding(@, parseMatchModes(text[i].mode),
                                          parseModifier(text[i].mods),
                                          text[i].trigger, text[i].action) ],
            i + 1)

loadInputMappings(text, where) == loadInputMappingsFrom(text, where, 1)

\* The Configs the writer is given: the default-constructed one, and ones
\* whose character list is a bounded list of records.
RoundTripSources ==
    { defaultInputMappings }
    \cup [ keyMappings : { << >>, defaultKeyMappings },
           charMappings : UNION { [ 1 .. n -> ApplyRecords ] : n \in 0 .. MaxSourceLen },
           mouseMappings : { << >>, defaultMouseMappings } ]

NoText == [ done |-> FALSE, value |-> << >> ]

RoundTripIdle ==
    /\ rtSource = defaultInputMappings
    /\ rtText = NoText
    /\ rtLoaded = [ done |-> FALSE, value |-> defaultInputMappings ]

RoundTripStart ==
    /\ rtSource \in RoundTripSources
    /\ rtText = NoText
    /\ rtLoaded = [ done |-> FALSE, value |-> defaultInputMappings ]

\* The writer renders the Config.
Render ==
    /\ ~ rtText.done
    /\ rtText' = [ done |-> TRUE, value |-> renderInputMappings(rtSource) ]
    /\ UNCHANGED << rtSource, rtLoaded >>

\* The reader loads the rendered text into a Config {}.
LoadRendered ==
    /\ rtText.done
    /\ ~ rtLoaded.done
    /\ rtLoaded' = [ done |-> TRUE,
                     value |-> loadInputMappings(rtText.value, defaultInputMappings) ]
    /\ UNCHANGED << rtSource, rtText >>

-----------------------------------------------------------------------------
(* SpecReload: reloads of the configuration interleaved with resolutions.  *)
(* A reload is loadConfigFromFile(fileName) returning a new Config, whose  *)
(* binding entries the reader merges one after the other, followed by the  *)
(* swap of the active-Config reference; a resolution is apply() on the     *)
(* active Config, whose result points into the list it scanned and is      *)
(* dereferenced when the actions are executed.                             *)

MaxReloads == 1

MaxReloadEntries == 1

ReloadModes == { MatchModesDefault, SelectInsertModes }

ReloadFlags == { 0, 24 }

\* The Config a reload loads into, given the Configs built so far and the
\* active one: here the live Config itself.
reloadTargetLive(all, live) == live

\* The Config a reload loads into: the one it has just constructed.
reloadTarget(all, live) == Len(all)

NotHeld == [ holding |-> FALSE, doc |-> 0, flags |-> 0, pos |-> 0, seen |-> Null ]

NotRun == [ done |-> FALSE, value |-> Null ]

ReloadIdle ==
    /\ docs = << [ table |-> defaultCharMappings, published |-> TRUE, n |-> 0,
                   frozen |-> defaultCharMappings ] >>
    /\ active = 1
    /\ held = NotHeld
    /\ ran = NotRun

Reloading == ~ docs[Len(docs)].published

\* Config loadConfigFromFile(fileName): a Config {} is constructed.
BeginReload ==
    /\ ~ Reloading
    /\ Len(docs) <= MaxReloads
    /\ docs' = Append(docs, [ table |-> defaultCharMappings, published |-> FALSE,
                              n |-> 0, frozen |-> << >> ])
    /\ UNCHANGED << active, held, ran >>

\* The reader merges the next binding entry of the file.
ReloadEntry ==
    /\ Reloading
    /\ docs[Len(docs)].n < MaxReloadEntries
    /\ \E modes \in ReloadModes, action \in EntryActions :
          LET t == reloadTarget(docs, active)
          IN  docs' = [ docs EXCEPT
                          ![t].table =
                              appendOrCreateBinding(@, modes, {"Control"}, "C", action),
                          ![Len(docs)].n = @ + 1 ]
    /\ UNCHANGED << active, held, ran >>

\* The loaded Config becomes the active one (frozen records the list it is
\* published with).
Publish ==
    /\ Reloading
    /\ docs' = [ docs EXCEPT ![Len(docs)].published = TRUE,
                             ![Len(docs)].frozen = docs[Len(docs)].table ]
    /\ active' = Len(docs)
    /\ UNCHANGED << held, ran >>

\* The input handler resolves Control+'C' on the active Config.
Resolve ==
    /\ ~ held.holding
    /\ \E fl \in ReloadFlags :
          held' = [ holding |-> TRUE, doc |-> active, flags |-> fl,
                    pos |-> applyIndex(docs[active].table, "C", {"Control"}, fl),
                    seen |-> apply(docs[active].table, "C", {"Control"}, fl) ]
    /\ UNCHANGED << docs, active, ran >>

\* The input handler executes the action list apply() returned.
Execute ==
    /\ held.holding
    /\ ran' = [ done |-> TRUE,
                value |-> IF held.pos = 0 THEN Null
                          ELSE docs[held.doc].table[held.pos].binding ]
    /\ held' = [ held EXCEPT !.holding = FALSE ]
    /\ UNCHANGED << docs, active >>

-----------------------------------------------------------------------------
(* SpecProfile: the lookups Config::profile(name) and Config::profile() on *)
(* a Config, in a build with assertions and in one compiled with NDEBUG.   *)

\* The profiles map of a Config: "main" of Config {} and the loaded profiles.
ProfileMaps ==
    { [ n \in S \cup { "main" } |-> DefaultProfile ] : S \in SUBSET ProfileNames }

LookupNames == ProfileNames \cup { "" }

Overloads == { "non-const", "const" }

Aborted == [ kind |-> "abort", name |-> "" ]

Nullptr == [ kind |-> "nullptr", name |-> "" ]

Found(name) == [ kind |-> "returned", name |-> name ]

\* Control reaching crispy::unreachable(): the behaviour is undefined; the
\* build may trap, or run on and hand the caller any pointer.
Unreachable(c) == { Aborted, Nullptr } \cup { Found(n) : n \in DOMAIN c.profiles }

\* TerminalProfile* Config::profile(std::string const& name) noexcept
profileNonConst(c, name, ndebug) ==
    IF name = "" /\ ~ ndebug THEN { Aborted }
    ELSE IF name \in DOMAIN c.profiles THEN { Found(name) }
    ELSE IF ~ ndebug THEN { Aborted }
    ELSE { Nullptr }

\* TerminalProfile const* Config::profile(std::string const& name) const
profileConst(c, name, ndebug) ==
    IF name = "" /\ ~ ndebug THEN { Aborted }
    ELSE IF name \in DOMAIN c.profiles THEN { Found(name) }
    ELSE IF ~ ndebug THEN { Aborted }
    ELSE Unreachable(c)

profile(c, overload, name, ndebug) ==
    IF overload = "const" THEN profileConst(c, name, ndebug)
    ELSE profileNonConst(c, name, ndebug)

\* TerminalProfile& Config::profile() noexcept, and its const overload: the
\* profile of defaultProfileName, crispy::unreachable() if the lookup gave
\* nullptr.
profileDefault(c, overload, ndebug) ==
    UNION { IF o.kind = "nullptr" THEN Unreachable(c) ELSE { o } :
              o \in profile(c, overload, c.defaultProfileName, ndebug) }

NoCall == [ done |-> FALSE, overload |-> "", name |-> "", outcome |-> Nullptr ]

ProfileIdle ==
    /\ pConfig = DefaultConfig
    /\ pNdebug = FALSE
    /\ pCall = NoCall

ProfileStart ==
    /\ pConfig \in [ live : { FALSE }, ptyReadBufferSize : { 16384 },
                     defaultProfileName : { "main", "work" },
                     profiles : ProfileMaps ]
    /\ pNdebug \in BOOLEAN
    /\ pCall = NoCall

\* A caller looks a profile up by name.
Profile ==
    /\ ~ pCall.done
    /\ \E overload \in Overloads, name \in LookupNames :
          \E o \in profile(pConfig, overload, name, pNdebug) :
             pCall' = [ done |-> TRUE, overload |-> overload, name |-> name,
                        outcome |-> o ]
    /\ UNCHANGED << pConfig, pNdebug >>

\* A caller asks for the default profile.
ProfileOfDefault ==
    /\ ~ pCall.done
    /\ \E overload \in Overloads :
          \E o \in profileDefault(pConfig, overload, pNdebug) :
             pCall' = [ done |-> TRUE, overload |-> overload,
                        name |-> "default", outcome |-> o ]
    /\ UNCHANGED << pConfig, pNdebug >>

-----------------------------------------------------------------------------
(* SpecEntry: one call of a typed loader loadFromEntry(node, entry, where) *)
(* on a node that has the key, lacks it, or has keys the reader does not   *)
(* know.                                                                   *)

\* where = boxed::boxed<V, T>(child.as<V>())
Boxed(v) == [ boxed |-> v ]

\* A boxed loader without the test of the child.
loadFromEntryBoxedUnguarded(raw, where) ==
    IF asInt(raw).ok THEN Returned(Boxed(asInt(raw).value))
    ELSE Threw(where)

\* loadFromEntry(node, entry, boxed::boxed<V, T>& where)
loadFromEntryBoxed(raw, where) ==
    IF raw = Absent THEN Returned(where)
    ELSE IF asInt(raw).ok THEN Returned(Boxed(asInt(raw).value))
    ELSE Threw(where)

\* vtbackend::ColorPalette {} and the palettes a colorscheme entry may give.
DefaultPalette == "default-palette"

Palettes == { "red-palette", "blue-palette" }

SchemeNames == { "default", "dark" }

\* loadFromEntry(node, entry, vtbackend::ColorPalette& where)
loadFromEntryPalette(raw, where) == IF raw = Absent THEN where ELSE raw

\* The colorschemes key of a document: absent, a scalar, or a map.
SchemeSections ==
    { [ kind |-> "absent", entries |-> << >> ], [ kind |-> "scalar", entries |-> << >> ] }
    \cup
    { [ kind |-> "map", entries |-> es ] :
        es \in { q \in UNION { [ 1 .. n -> [ name : SchemeNames, palette : Palettes ] ] :
                                 n \in 0 .. MaxProfiles } :
                   \A i, j \in 1 .. Len(q) : i # j => q[i].name # q[j].name } }

SchemeMaps ==
    { [ n \in S \cup { "default" } |-> DefaultPalette ] : S \in SUBSET SchemeNames }

\* The for loop of the map loader, from entry i on: where[name] is created
\* default-constructed if need be and loaded from the entry.
RECURSIVE loadSchemesFrom(_, _, _)
loadSchemesFrom(section, where, i) ==
    IF i > Len(section.entries) THEN where
    ELSE LET name == section.entries[i].name
             prior == IF name \in DOMAIN where THEN where[name] ELSE DefaultPalette
             loaded == loadFromEntryPalette(section.entries[i].palette, prior)
         IN  loadSchemesFrom(
                section,
                [ n \in DOMAIN where \cup { name } |->
                    IF n = name THEN loaded ELSE where[n] ],
                i + 1)

\* loadFromEntry(node, entry, std::unordered_map<std::string, T>& where)
loadFromEntryMap(section, where) ==
    IF section.kind = "map" THEN loadSchemesFrom(section, where, 1) ELSE where

Loaders == { "bool", "int", "boxed", "milliseconds", "profiles", "colorschemes" }

\* The calls: the loader, node[entry], a key of the node no loader asks for,
\* and the value the entry holds before the call.
EntryCalls ==
    [ loader : { "bool" }, child : BoolScalars \cup { Absent, BadScalar },
      unknown : { Absent, BadScalar }, where : BOOLEAN, name : { "main" } ]
    \cup
    [ loader : { "int", "milliseconds" }, child : IntScalars \cup { Absent, BadScalar },
      unknown : { Absent, BadScalar }, where : { 100, 16384 }, name : { "main" } ]
    \cup
    [ loader : { "boxed" }, child : IntScalars \cup { Absent, BadScalar },
      unknown : { Absent, BadScalar }, where : { Boxed(4096), Boxed(7) }, name : { "main" } ]
    \cup
    [ loader : { "profiles" }, child : Sections,
      unknown : { Absent, BadScalar }, where : ProfileMaps, name : { "main", "work" } ]
    \cup
    [ loader : { "colorschemes" }, child : SchemeSections,
      unknown : { Absent, BadScalar }, where : SchemeMaps, name : { "main" } ]

\* The typed loader a call is dispatched to.
loadFromEntry(call) ==
    CASE call.loader = "bool" -> loadFromEntryBool(call.child, call.where)
      [] call.loader = "int" -> loadFromEntryInt(call.child, call.where)
      [] call.loader = "milliseconds" -> loadFromEntryMilliseconds(call.child, call.where)
      [] call.loader = "boxed" -> loadFromEntryBoxed(call.child, call.where)
      [] call.loader = "profiles" ->
            Returned(loadFromEntryProfiles(call.child, call.where, call.name))
      [] call.loader = "colorschemes" ->
            Returned(loadFromEntryMap(call.child, call.where))

NoCallYet == [ loader |-> "bool", child |-> Absent, unknown |-> Absent,
               where |-> FALSE, name |-> "main" ]

NoOutcome == [ done |-> FALSE, threw |-> FALSE ]

EntryIdle ==
    /\ eCall = NoCallYet
    /\ eOut = NoOutcome

EntryStart ==
    /\ eCall \in EntryCalls
    /\ eOut = NoOutcome

\* One call of a typed loader.
LoadFromEntry ==
    /\ ~ eOut.done
    /\ eOut' = [ done |-> TRUE, threw |-> loadFromEntry(eCall).threw,
                 value |-> loadFromEntry(eCall).value ]
    /\ UNCHANGED eCall

-----------------------------------------------------------------------------
(* SpecWriter: two Writer instances rendering, the render of one called    *)
(* from within a scoped() of the other.                                    *)

MaxNesting == 3

Writers == { "w1", "w2" }

\* static constexpr int OneOffset = 4
OneOffset == 4

\* The scopes a writer has open itself.
RECURSIVE ownLevels(_, _)
ownLevels(stack, w) ==
    IF stack = << >> THEN 0
    ELSE (IF Head(stack) = w THEN 1 ELSE 0) + ownLevels(Tail(stack), w)

\* addOffset(doc, off): the number of blanks put before each line of doc.
addOffset(off) == off

\* YAMLConfigWriter::process(doc, val): addOffset(doc, Offset::levels * OneOffset)
process(allLevels, own) == addOffset(allLevels * OneOffset)

NotSeen == [ w \in Writers |-> [ seen |-> FALSE, offset |-> 0, own |-> 0 ] ]

WriterIdle ==
    /\ levels = 0
    /\ scopes = << >>
    /\ wSeen = NotSeen

\* Writer::scoped entered by writer w: Offset() { levels++; }
ScopedEnter ==
    /\ Len(scopes) < MaxNesting
    /\ \E w \in Writers :
          /\ scopes' = << w >> \o scopes
          /\ levels' = levels + 1
    /\ UNCHANGED wSeen

\* The innermost scoped() returns: ~Offset() { --levels; }
ScopedExit ==
    /\ scopes # << >>
    /\ scopes' = Tail(scopes)
    /\ levels' = levels - 1
    /\ UNCHANGED wSeen

\* Writer w formats one entry with process().
Process ==
    /\ \E w \in Writers :
          wSeen' = [ wSeen EXCEPT
                       ![w] = [ seen |-> TRUE,
                                offset |-> process(levels, ownLevels(scopes, w)),
                                own |-> ownLevels(scopes, w) ] ]
    /\ UNCHANGED << levels, scopes >>

-----------------------------------------------------------------------------
(* SpecFormat: one call of a format function of YAMLConfigWriter. A text   *)
(* is a sequence of tokens: "nl" is the newline, " " a blank, "{}" a       *)
(* replacement field, "{comment}" the comment placeholder; every other     *)
(* token is a run of non-blank characters.                                 *)

MaxDocLen == 3

MaxDepth == 2

DocTokens == { "key:", "nl", "{}", "{comment}" }

Docs == UNION { [ 1 .. n -> DocTokens ] : n \in 0 .. MaxDocLen }

RECURSIVE Blanks(_)
Blanks(n) == IF n = 0 THEN << >> ELSE << " " >> \o Blanks(n - 1)

\* The position of the first newline of doc at or after i, 0 when none.
RECURSIVE nextNewline(_, _)
nextNewline(doc, i) ==
    IF i > Len(doc) THEN 0
    ELSE IF doc[i] = "nl" THEN i ELSE nextNewline(doc, i + 1)

\* std::regex_replace(doc, std::regex(".+\n"), offset + "$&") from the line
\* that starts at i: a line of at least one character that ends in a newline
\* is a match and gets the offset; an empty line and a last line without a
\* newline are copied as they are.
RECURSIVE addOffsetFrom(_, _, _)
addOffsetFrom(doc, i, off) ==
    IF i > Len(doc) THEN << >>
    ELSE LET j == nextNewline(doc, i)
         IN  IF j = 0 THEN SubSeq(doc, i, Len(doc))
             ELSE IF j = i THEN << "nl" >> \o addOffsetFrom(doc, i + 1, off)
             ELSE Blanks(off) \o SubSeq(doc, i, j) \o addOffsetFrom(doc, j + 1, off)

\* YAMLConfigWriter::addOffset(doc, off) on the text of doc.
addOffsetDoc(doc, off) == addOffsetFrom(doc, 1, off)

\* helper::replaceCommentPlaceholder(docString)
replaceCommentPlaceholder(docString) ==
    [ i \in 1 .. Len(docString) |->
        IF docString[i] = "{comment}" THEN "#" ELSE docString[i] ]

RECURSIVE fields(_)
fields(doc) ==
    IF doc = << >> THEN 0
    ELSE (IF Head(doc) = "{}" THEN 1 ELSE 0) + fields(Tail(doc))

RECURSIVE substitute(_, _)
substitute(doc, args) ==
    IF doc = << >> THEN << >>
    ELSE IF Head(doc) = "{}" THEN Head(args) \o substitute(Tail(doc), Tail(args))
    ELSE << Head(doc) >> \o substitute(Tail(doc), args)

\* std::vformat(fmt, args): a replacement field without an argument throws
\* std::format_error; arguments without a field are ignored.
vformat(fmt, args) ==
    IF fields(fmt) > Len(args) THEN [ threw |-> TRUE, text |-> << >> ]
    ELSE [ threw |-> FALSE, text |-> substitute(fmt, args) ]

\* Writer::format(doc, args...)
formatDoc(doc, args) == vformat(replaceCommentPlaceholder(doc), args)

SchemeName == << "default" >>

ColorConfigs ==
    { [ kind |-> "SimpleColorConfig", colorScheme |-> SchemeName ],
      [ kind |-> "DualColorConfig", colorSchemeLight |-> SchemeName,
        colorSchemeDark |-> SchemeName ] }

\* YAMLConfigWriter::format(doc, ColorConfig& v)
formatColorConfig(doc, v) ==
    IF v.kind = "SimpleColorConfig" THEN formatDoc(doc, << v.colorScheme >>)
    ELSE LET formattedValue ==
                << "nl" >> \o Blanks(4) \o << "light:", " " >> \o v.colorSchemeLight
                \o << "nl" >> \o Blanks(4) \o << "dark:", " " >> \o v.colorSchemeDark
                \o << "nl" >>
         IN  formatDoc(doc, << formattedValue >>)

\* YAMLConfigWriter::process(doc, val) for a ColorConfig, Offset::levels
\* being lv.
processColorConfig(doc, v, lv) == formatColorConfig(addOffsetDoc(doc, lv * OneOffset), v)

MaxLineCount == 11

\* The decimal digits std::format("{}", n) writes for an int, sign first.
RECURSIVE digitsOf(_)
digitsOf(n) ==
    LET digit == << "0", "1", "2", "3", "4", "5", "6", "7", "8", "9" >>[(n % 10) + 1]
    IN  IF n < 10 THEN << digit >> ELSE digitsOf(n \div 10) \o << digit >>

formatInt(n) == IF n < 0 THEN << "-" >> \o digitsOf(0 - n) ELSE digitsOf(n)

Infinite == [ kind |-> "Infinite" ]

LineCount(n) == [ kind |-> "LineCount", value |-> n ]

\* vtbackend::MaxHistoryLineCount: Infinite, or a count of lines.
MaxHistoryLineCounts == { Infinite } \cup { LineCount(n) : n \in 0 .. MaxLineCount }

\* A writer that renders Infinite like a count of zero.
formatMaxHistoryLineCountAsZero(doc, v) ==
    IF v.kind = "Infinite" THEN formatDoc(doc, << formatInt(0) >>)
    ELSE formatDoc(doc, << formatInt(v.value) >>)

\* YAMLConfigWriter::format(doc, vtbackend::MaxHistoryLineCount v)
formatMaxHistoryLineCount(doc, v) ==
    IF v.kind = "Infinite" THEN formatDoc(doc, << formatInt(-1) >>)
    ELSE LET number == v.value
         IN  formatDoc(doc, << formatInt(number) >>)

MaxActions == 2

\* Records the writer is handed for a list: one trigger and modifier set, the
\* filters and the action lists varying.
MappingRecords ==
    [ list \in Lists |->
        [ modes : { MatchModesDefault, InsertModes, SelectInsertModes },
          modifiers : { { "Control" } },
          input : { CHOOSE x \in EntryInputs[list] : TRUE },
          binding : UNION { [ 1 .. n -> EntryActions ] : n \in 1 .. MaxActions } ] ]

\* YAMLConfigWriter::format(v) by the type of v: the line of one record.
formatInputMapping(list, v) ==
    CASE list = "keyMappings" -> formatKeyInputMapping(v)
      [] list = "charMappings" -> formatCharInputMapping(v)
      [] list = "mouseMappings" -> formatMouseInputMapping(v)

FormatCalls ==
    [ fn : { "process" }, doc : Docs, v : ColorConfigs, levels : 0 .. MaxDepth ]
    \cup [ fn : { "format" }, doc : Docs, v : MaxHistoryLineCounts ]
    \cup UNION { [ fn : { "formatInputMapping" }, list : { l }, v : MappingRecords[l] ] :
                   l \in Lists }

NoFormatCall == [ fn |-> "none" ]

NoFormatOut == [ done |-> FALSE, threw |-> FALSE, text |-> << >> ]

FormatIdle == fCall = NoFormatCall /\ fOut = NoFormatOut

FormatStart == fCall \in FormatCalls /\ fOut = NoFormatOut

\* The writer renders the colors entry with process().
ProcessColors ==
    /\ ~ fOut.done
    /\ fCall.fn = "process"
    /\ fOut' = [ done |-> TRUE,
                 threw |-> processColorConfig(fCall.doc, fCall.v, fCall.levels).threw,
                 text |-> processColorConfig(fCall.doc, fCall.v, fCall.levels).text ]
    /\ UNCHANGED fCall

\* The writer renders the maximum history line count.
FormatMaxHistoryLineCount ==
    /\ ~ fOut.done
    /\ fCall.fn = "format"
    /\ fOut' = [ done |-> TRUE,
                 threw |-> formatMaxHistoryLineCount(fCall.doc, fCall.v).threw,
                 text |-> formatMaxHistoryLineCount(fCall.doc, fCall.v).text ]
    /\ UNCHANGED fCall

\* The writer renders one record of a binding list.
FormatInputMapping ==
    /\ ~ fOut.done
    /\ fCall.fn = "formatInputMapping"
    /\ fOut' = [ done |-> TRUE, threw |-> FALSE,
                 text |-> << formatInputMapping(fCall.list, fCall.v) >> ]
    /\ UNCHANGED fCall

-----------------------------------------------------------------------------
(* SpecTyped: ConfigEntry<std::string, doc> objects of one type and the     *)
(* operations the class gives: assignment of a value by copy and by move,  *)
(* value(), and the defaulted copy and move assignment from another entry. *)

EntryNames == { "a", "b" }

\* doc.value, the template the type is defined with.
DocValue == "doc"

EntryValues == { "", "x", "y" }

\* What a moved-from std::string holds: valid but unspecified, here either
\* what it held or the empty string.
movedFrom(str) == { str, "" }

TypedStart ==
    /\ cEntry \in [ EntryNames -> [ documentation : { DocValue }, value : EntryValues ] ]
    /\ cLast = [ op |-> "none", on |-> "none" ]

TypedIdle ==
    /\ cEntry = [ n \in EntryNames |-> [ documentation |-> DocValue, value |-> "" ] ]
    /\ cLast = [ op |-> "none", on |-> "none" ]

\* ConfigEntry& operator=(T const& value)
AssignCopy ==
    \E n \in EntryNames, v \in EntryValues :
       /\ cEntry' = [ cEntry EXCEPT ![n].value = v ]
       /\ cLast' = [ op |-> "operator=(T const&)", on |-> n ]

\* ConfigEntry& operator=(T&& value) noexcept
AssignMove ==
    \E n \in EntryNames, v \in EntryValues :
       /\ cEntry' = [ cEntry EXCEPT ![n].value = v ]
       /\ cLast' = [ op |-> "operator=(T&&)", on |-> n ]

\* T& value(), written through
MutateValue ==
    \E n \in EntryNames, v \in EntryValues :
       /\ cEntry' = [ cEntry EXCEPT ![n].value = v ]
       /\ cLast' = [ op |-> "value()", on |-> n ]

\* ConfigEntry& operator=(ConfigEntry const&) = default: memberwise copy of
\* documentation and _value.
CopyAssign ==
    \E n \in EntryNames, other \in EntryNames :
       /\ cEntry' = [ cEntry EXCEPT ![n] = cEntry[other] ]
       /\ cLast' = [ op |-> "operator=(ConfigEntry const&)", on |-> n ]

\* ConfigEntry& operator=(ConfigEntry&&) noexcept = default: memberwise move
\* of documentation and _value, which leaves both members of the other entry
\* moved-from.
MoveAssign ==
    \E n \in EntryNames : \E other \in EntryNames \ { n } :
       \E d \in movedFrom(cEntry[other].documentation),
          v \in movedFrom(cEntry[other].value) :
          /\ cEntry' = [ cEntry EXCEPT
                           ![n] = cEntry[other],
                           ![other] = [ documentation |-> d, value |-> v ] ]
          /\ cLast' = [ op |-> "operator=(ConfigEntry&&)", on |-> n ]

-----------------------------------------------------------------------------
(* SpecTabs: TerminalSessionManager::isAllowedToChangeTabs, called at any   *)
(* time of the steady clock after a tab change recorded in _lastTabChange. *)

MaxClock == 102

MaxLastChange == 1

\* std::chrono::milliseconds _timeBetweenTabSwitches { 100 }
TimeBetweenTabSwitches == 100

abs(d) == IF d < 0 THEN 0 - d ELSE d

\* A throttle that still refuses when exactly the whole interval has passed.
isAllowedToChangeTabsInclusive(now, lastTabChange) ==
    IF abs(now - lastTabChange) <= TimeBetweenTabSwitches THEN FALSE ELSE TRUE

\* bool isAllowedToChangeTabs()
isAllowedToChangeTabs(now, lastTabChange) ==
    IF abs(now - lastTabChange) < TimeBetweenTabSwitches THEN FALSE ELSE TRUE

NotAsked == [ done |-> FALSE, now |-> 0, value |-> FALSE ]

\* _sessions and _activeSession of a manager: no session yet, or two tabs
\* with either of them active.
SessionLists == { << >>, << "s1", "s2" >> }

TabsIdle ==
    /\ sNow = 0
    /\ sLastTabChange = 0
    /\ sSessions = << >>
    /\ sActiveSession = "nullptr"
    /\ sAllowed = NotAsked

TabsStart ==
    /\ sLastTabChange \in 0 .. MaxLastChange
    /\ sNow = sLastTabChange
    /\ sSessions \in SessionLists
    /\ sActiveSession \in IF sSessions = << >> THEN { "nullptr" } ELSE { "s1", "s2" }
    /\ sAllowed = NotAsked

\* The steady clock advances.
Tick ==
    /\ sNow < MaxClock
    /\ sNow' = sNow + 1
    /\ UNCHANGED << sLastTabChange, sSessions, sActiveSession, sAllowed >>

\* One call of isAllowedToChangeTabs().
IsAllowedToChangeTabs ==
    /\ sAllowed' = [ done |-> TRUE, now |-> sNow,
                     value |-> isAllowedToChangeTabs(sNow, sLastTabChange) ]
    /\ UNCHANGED << sNow, sLastTabChange, sSessions, sActiveSession >>

-----------------------------------------------------------------------------
(* SpecMargins: one call of operator*(WindowMargins const&, double). The    *)
(* factor is a double; the model takes the non-negative multiples of one   *)
(* half and writes a factor as the number of halves.                       *)

MaxMargin == 3

MaxHalves == 4

\* WindowMargins {}: both margins boxed unsigned values, 0 by default.
WindowMargins(horizontal, vertical) == [ horizontal |-> horizontal, vertical |-> vertical ]

\* static_cast<unsigned>(value * factor): the product as a double, truncated
\* toward zero.
scaled(value, halves) == (value * halves) \div 2

\* constexpr WindowMargins operator*(WindowMargins const& margin, double factor):
\* the designated initializer names horizontal only, so vertical is the
\* default member initializer { 0 }.
times(margin, halves) == WindowMargins(scaled(margin.horizontal, halves), 0)

MarginCalls ==
    [ margin : { WindowMargins(h, v) : h \in 0 .. MaxMargin, v \in 0 .. MaxMargin },
      halves : 0 .. MaxHalves ]

NoMarginCall == [ margin |-> WindowMargins(0, 0), halves |-> 2 ]

NoMarginOut == [ done |-> FALSE, value |-> WindowMargins(0, 0) ]

MarginsIdle == gCall = NoMarginCall /\ gOut = NoMarginOut

MarginsStart == gCall \in MarginCalls /\ gOut = NoMarginOut

\* margin * factor
Times ==
    /\ ~ gOut.done
    /\ gOut' = [ done |-> TRUE, value |-> times(gCall.margin, gCall.halves) ]
    /\ UNCHANGED gCall

-----------------------------------------------------------------------------
(* The specifications.                                                    *)

InitMatch ==
    /\ MatchStart
    /\ ApplyIdle
    /\ TableIdle
    /\ LoadIdle
    /\ RoundTripIdle
    /\ ReloadIdle
    /\ ProfileIdle
    /\ EntryIdle
    /\ WriterIdle
    /\ FormatIdle
    /\ TypedIdle
    /\ TabsIdle
    /\ MarginsIdle
NextMatch ==
    Match /\ UNCHANGED << applyVars, tableVars, loadVars, roundTripVars, reloadVars, profileVars, entryVars, writerVars, formatVars, typedVars, tabVars, marginVars >>
SpecMatch == InitMatch /\ [][NextMatch]_vars

InitApply ==
    /\ MatchIdle
    /\ ApplyStart
    /\ TableIdle
    /\ LoadIdle
    /\ RoundTripIdle
    /\ ReloadIdle
    /\ ProfileIdle
    /\ EntryIdle
    /\ WriterIdle
    /\ FormatIdle
    /\ TypedIdle
    /\ TabsIdle
    /\ MarginsIdle
NextApply ==
    Apply /\ UNCHANGED << matchVars, tableVars, loadVars, roundTripVars, reloadVars, profileVars, entryVars, writerVars, formatVars, typedVars, tabVars, marginVars >>
SpecApply == InitApply /\ [][NextApply]_vars

Init ==
    /\ MatchIdle
    /\ ApplyIdle
    /\ TableStart
    /\ LoadIdle
    /\ RoundTripIdle
    /\ ReloadIdle
    /\ ProfileIdle
    /\ EntryIdle
    /\ WriterIdle
    /\ FormatIdle
    /\ TypedIdle
    /\ TabsIdle
    /\ MarginsIdle
Next ==
    AppendOrCreateBinding /\ UNCHANGED << matchVars, applyVars, loadVars, roundTripVars, reloadVars, profileVars, entryVars, writerVars, formatVars, typedVars, tabVars, marginVars >>
Spec == Init /\ [][Next]_vars

InitLoad ==
    /\ MatchIdle
    /\ ApplyIdle
    /\ TableIdle
    /\ LoadIdle
    /\ RoundTripIdle
    /\ ReloadIdle
    /\ ProfileIdle
    /\ EntryIdle
    /\ WriterIdle
    /\ FormatIdle
    /\ TypedIdle
    /\ TabsIdle
    /\ MarginsIdle
NextLoad ==
    LoadConfigFromFile /\ UNCHANGED << matchVars, applyVars, tableVars, roundTripVars, reloadVars, profileVars, entryVars, writerVars, formatVars, typedVars, tabVars, marginVars >>
SpecLoad == InitLoad /\ [][NextLoad]_vars

InitRoundTrip ==
    /\ MatchIdle
    /\ ApplyIdle
    /\ TableIdle
    /\ LoadIdle
    /\ RoundTripStart
    /\ ReloadIdle
    /\ ProfileIdle
    /\ EntryIdle
    /\ WriterIdle
    /\ FormatIdle
    /\ TypedIdle
    /\ TabsIdle
    /\ MarginsIdle
NextRoundTrip ==
    \/ Render /\ UNCHANGED << matchVars, applyVars, tableVars, loadVars, reloadVars, profileVars, entryVars, writerVars, formatVars, typedVars, tabVars, marginVars >>
    \/ LoadRendered /\ UNCHANGED << matchVars, applyVars, tableVars, loadVars, reloadVars, profileVars, entryVars, writerVars, formatVars, typedVars, tabVars, marginVars >>
SpecRoundTrip == InitRoundTrip /\ [][NextRoundTrip]_vars

InitReload ==
    /\ MatchIdle
    /\ ApplyIdle
    /\ TableIdle
    /\ LoadIdle
    /\ RoundTripIdle
    /\ ReloadIdle
    /\ ProfileIdle
    /\ EntryIdle
    /\ WriterIdle
    /\ FormatIdle
    /\ TypedIdle
    /\ TabsIdle
    /\ MarginsIdle
NextReload ==
    \/ BeginReload /\ UNCHANGED << matchVars, applyVars, tableVars, loadVars, roundTripVars, profileVars, entryVars, writerVars, formatVars, typedVars, tabVars, marginVars >>
    \/ ReloadEntry /\ UNCHANGED << matchVars, applyVars, tableVars, loadVars, roundTripVars, profileVars, entryVars, writerVars, formatVars, typedVars, tabVars, marginVars >>
    \/ Publish /\ UNCHANGED << matchVars, applyVars, tableVars, loadVars, roundTripVars, profileVars, entryVars, writerVars, formatVars, typedVars, tabVars, marginVars >>
    \/ Resolve /\ UNCHANGED << matchVars, applyVars, tableVars, loadVars, roundTripVars, profileVars, entryVars, writerVars, formatVars, typedVars, tabVars, marginVars >>
    \/ Execute /\ UNCHANGED << matchVars, applyVars, tableVars, loadVars, roundTripVars, profileVars, entryVars, writerVars, formatVars, typedVars, tabVars, marginVars >>
SpecReload == InitReload /\ [][NextReload]_vars

InitProfile ==
    /\ MatchIdle
    /\ ApplyIdle
    /\ TableIdle
    /\ LoadIdle
    /\ RoundTripIdle
    /\ ReloadIdle
    /\ ProfileStart
    /\ EntryIdle
    /\ WriterIdle
    /\ FormatIdle
    /\ TypedIdle
    /\ TabsIdle
    /\ MarginsIdle
NextProfile ==
    \/ Profile /\ UNCHANGED << matchVars, applyVars, tableVars, loadVars, roundTripVars, reloadVars, entryVars, writerVars, formatVars, typedVars, tabVars, marginVars >>
    \/ ProfileOfDefault /\ UNCHANGED << matchVars, applyVars, tableVars, loadVars, roundTripVars, reloadVars, entryVars, writerVars, formatVars, typedVars, tabVars, marginVars >>
SpecProfile == InitProfile /\ [][NextProfile]_vars

InitEntry ==
    /\ MatchIdle
    /\ ApplyIdle
    /\ TableIdle
    /\ LoadIdle
    /\ RoundTripIdle
    /\ ReloadIdle
    /\ ProfileIdle
    /\ EntryStart
    /\ WriterIdle
    /\ FormatIdle
    /\ TypedIdle
    /\ TabsIdle
    /\ MarginsIdle
NextEntry ==
    LoadFromEntry /\ UNCHANGED << matchVars, applyVars, tableVars, loadVars, roundTripVars, reloadVars, profileVars, writerVars, formatVars, typedVars, tabVars, marginVars >>
SpecEntry == InitEntry /\ [][NextEntry]_vars

InitWriter ==
    /\ MatchIdle
    /\ ApplyIdle
    /\ TableIdle
    /\ LoadIdle
    /\ RoundTripIdle
    /\ ReloadIdle
    /\ ProfileIdle
    /\ EntryIdle
    /\ WriterIdle
    /\ FormatIdle
    /\ TypedIdle
    /\ TabsIdle
    /\ MarginsIdle
NextWriter ==
    \/ ScopedEnter /\ UNCHANGED << matchVars, applyVars, tableVars, loadVars, roundTripVars, reloadVars, profileVars, entryVars, formatVars, typedVars, tabVars, marginVars >>
    \/ ScopedExit /\ UNCHANGED << matchVars, applyVars, tableVars, loadVars, roundTripVars, reloadVars, profileVars, entryVars, formatVars, typedVars, tabVars, marginVars >>
    \/ Process /\ UNCHANGED << matchVars, applyVars, tableVars, loadVars, roundTripVars, reloadVars, profileVars, entryVars, formatVars, typedVars, tabVars, marginVars >>
SpecWriter == InitWriter /\ [][NextWriter]_vars

InitFormat ==
    /\ MatchIdle
    /\ ApplyIdle
    /\ TableIdle
    /\ LoadIdle
    /\ RoundTripIdle
    /\ ReloadIdle
    /\ ProfileIdle
    /\ EntryIdle
    /\ WriterIdle
    /\ FormatStart
    /\ TypedIdle
    /\ TabsIdle
    /\ MarginsIdle
NextFormat ==
    \/ ProcessColors /\ UNCHANGED << matchVars, applyVars, tableVars, loadVars, roundTripVars, reloadVars, profileVars, entryVars, writerVars, typedVars, tabVars, marginVars >>
    \/ FormatMaxHistoryLineCount /\ UNCHANGED << matchVars, applyVars, tableVars, loadVars, roundTripVars, reloadVars, profileVars, entryVars, writerVars, typedVars, tabVars, marginVars >>
    \/ FormatInputMapping /\ UNCHANGED << matchVars, applyVars, tableVars, loadVars, roundTripVars, reloadVars, profileVars, entryVars, writerVars, typedVars, tabVars, marginVars >>
SpecFormat == InitFormat /\ [][NextFormat]_vars

InitTyped ==
    /\ MatchIdle
    /\ ApplyIdle
    /\ TableIdle
    /\ LoadIdle
    /\ RoundTripIdle
    /\ ReloadIdle
    /\ ProfileIdle
    /\ EntryIdle
    /\ WriterIdle
    /\ FormatIdle
    /\ TypedStart
    /\ TabsIdle
    /\ MarginsIdle
NextTyped ==
    \/ AssignCopy /\ UNCHANGED << matchVars, applyVars, tableVars, loadVars, roundTripVars, reloadVars, profileVars, entryVars, writerVars, formatVars, tabVars, marginVars >>
    \/ AssignMove /\ UNCHANGED << matchVars, applyVars, tableVars, loadVars, roundTripVars, reloadVars, profileVars, entryVars, writerVars, formatVars, tabVars, marginVars >>
    \/ MutateValue /\ UNCHANGED << matchVars, applyVars, tableVars, loadVars, roundTripVars, reloadVars, profileVars, entryVars, writerVars, formatVars, tabVars, marginVars >>
    \/ CopyAssign /\ UNCHANGED << matchVars, applyVars, tableVars, loadVars, roundTripVars, reloadVars, profileVars, entryVars, writerVars, formatVars, tabVars, marginVars >>
    \/ MoveAssign /\ UNCHANGED << matchVars, applyVars, tableVars, loadVars, roundTripVars, reloadVars, profileVars, entryVars, writerVars, formatVars, tabVars, marginVars >>
SpecTyped == InitTyped /\ [][NextTyped]_vars

InitTabs ==
    /\ MatchIdle
    /\ ApplyIdle
    /\ TableIdle
    /\ LoadIdle
    /\ RoundTripIdle
    /\ ReloadIdle
    /\ ProfileIdle
    /\ EntryIdle
    /\ WriterIdle
    /\ FormatIdle
    /\ TypedIdle
    /\ TabsStart
    /\ MarginsIdle
NextTabs ==
    \/ Tick /\ UNCHANGED << matchVars, applyVars, tableVars, loadVars, roundTripVars, reloadVars, profileVars, entryVars, writerVars, formatVars, typedVars, marginVars >>
    \/ IsAllowedToChangeTabs /\ UNCHANGED << matchVars, applyVars, tableVars, loadVars, roundTripVars, reloadVars, profileVars, entryVars, writerVars, formatVars, typedVars, marginVars >>
SpecTabs == InitTabs /\ [][NextTabs]_vars

InitMargins ==
    /\ MatchIdle
    /\ ApplyIdle
    /\ TableIdle
    /\ LoadIdle
    /\ RoundTripIdle
    /\ ReloadIdle
    /\ ProfileIdle
    /\ EntryIdle
    /\ WriterIdle
    /\ FormatIdle
    /\ TypedIdle
    /\ TabsIdle
    /\ MarginsStart
NextMargins ==
    Times /\ UNCHANGED << matchVars, applyVars, tableVars, loadVars, roundTripVars, reloadVars, profileVars, entryVars, writerVars, formatVars, typedVars, tabVars >>
SpecMargins == InitMargins /\ [][NextMargins]_vars

-----------------------------------------------------------------------------
(* Claims about the load of a document.                                    *)

\* The value an entry holds when its key is well-typed, else the prior value.
ExpectBool(raw, prior) == IF asBool(raw).ok THEN asBool(raw).value ELSE prior
ExpectInt(raw, prior) == IF asInt(raw).ok THEN asInt(raw).value ELSE prior

\* C8 (as claimed): for every document whose profiles section defines a
\* non-default profile P, after the load P exists, every entry P's section
\* does not give equals that of the loaded default profile, and every entry it
\* gives (with a value of the entry's type) equals the override.
C8_ProfileInheritsDefault ==
    (pc = "loaded" /\ document.profiles.kind = "map") =>
        \A i \in 1 .. Len(document.profiles.entries) :
           LET node == document.profiles.entries[i]
               dn == config.defaultProfileName
           IN  node.name # dn =>
                  /\ dn \in DOMAIN config.profiles
                  /\ node.name \in DOMAIN config.profiles
                  /\ config.profiles[node.name].maximized =
                        ExpectBool(node.maximized, config.profiles[dn].maximized)
                  /\ config.profiles[node.name].smoothLineScrolling =
                        ExpectInt(node.smooth_line_scrolling,
                                  config.profiles[dn].smoothLineScrolling)

\* C9 (as claimed): after the load of any document the default profile name
\* is a key of the profiles map.
C9_DefaultProfileExists ==
    pc = "loaded" => config.defaultProfileName \in DOMAIN config.profiles

\* C10 (as claimed): a failure while extracting one entry is caught inside the
\* reader, leaves that entry at the value it had before the load and does not
\* keep any other entry from being loaded.
C10_FieldFailureIsLocal ==
    pc = "loaded" =>
        /\ ~ escaped
        /\ config.live = ExpectBool(document.live, DefaultConfig.live)
        /\ config.ptyReadBufferSize =
              ExpectInt(document.pty_read_buffer_size, DefaultConfig.ptyReadBufferSize)
        /\ config.defaultProfileName =
              IF document.default_profile = Absent THEN DefaultConfig.defaultProfileName
              ELSE document.default_profile
        /\ document.profiles.kind = "map" =>
              \A i \in 1 .. Len(document.profiles.entries) :
                 document.profiles.entries[i].name \in DOMAIN config.profiles


\* C11: a file the parser rejects yields a Config equal, entry by entry, to the
\* default-constructed Config, and no exception leaves the reader.
C11_MalformedFileYieldsDefaults ==
    (pc = "loaded" /\ ~ file.wellFormed) =>
        /\ ~ escaped
        /\ config = DefaultConfig
        /\ config.defaultProfileName \in DOMAIN config.profiles

\* A rejected file has been loaded.
C11_Witness ==
    /\ pc = "loaded"
    /\ ~ file.wellFormed
    /\ document = NullNode
    /\ config.profiles["main"] = DefaultProfile


\* C16: loading a document whose default profile name is "main" and which has
\* no profiles section yields a Config in which profile("main") exists and
\* every entry of it has the default of TerminalProfile.
C16_MainProfileWithoutSection ==
    ( /\ pc = "loaded"
      /\ file.wellFormed
      /\ document.default_profile = "main"
      /\ document.profiles.kind = "absent" ) =>
        /\ "main" \in DOMAIN config.profiles
        /\ config.profiles["main"] = DefaultProfile
        /\ \A overload \in Overloads, nd \in BOOLEAN :
              profile(config, overload, "main", nd) = { Found("main") }

\* Such a document has been loaded, with its other entries taking effect.
C16_Witness ==
    /\ pc = "loaded"
    /\ file.wellFormed
    /\ document.default_profile = "main"
    /\ document.profiles.kind = "absent"
    /\ document.live = "true"
    /\ config.live
    /\ config.defaultProfileName = "main"
    /\ config.profiles["main"] = DefaultProfile

-----------------------------------------------------------------------------
(* Claims about the round trip through the writer and the reader.          *)

\* C12 (as claimed): rendering the default-constructed Config and loading the
\* rendered text yields the same three binding lists: same records, same
\* order, same action list per record.
C12_DefaultRoundTrip ==
    (rtLoaded.done /\ rtSource = defaultInputMappings) =>
        rtLoaded.value = rtSource


-----------------------------------------------------------------------------
(* Claims about reloads.                                                   *)

-----------------------------------------------------------------------------
(* Claims about the profile lookups.                                       *)

\* C14 (as claimed): profile(name) returns the profile stored under name when
\* name is a key of the profiles map; with any other name (the empty one
\* included) either overload ends in the fatal path, returns nothing the
\* caller can continue with, and creates no profile.
C14_MissingProfileIsFatal ==
    (pCall.done /\ pCall.name \in LookupNames) =>
        IF pCall.name \in DOMAIN pConfig.profiles
        THEN pCall.outcome = Found(pCall.name)
        ELSE pCall.outcome = Aborted


-----------------------------------------------------------------------------
(* Claims about the typed loaders.                                         *)

\* Does the call find nothing to load: the key is absent, or, for the two map
\* loaders, the section is absent or is not a map.
NothingToLoad(call) ==
    IF call.loader \in { "profiles", "colorschemes" }
    THEN call.child.kind # "map"
    ELSE call.child = Absent

\* C19: a loader whose key is absent (whatever unknown keys the node has)
\* leaves the entry at its prior value and raises no error: the scalar, boxed
\* and duration loaders assign only when the key exists, the profiles and
\* colorscheme loaders leave the map unchanged when the section is absent or
\* is not a map.
C19_AbsentKeyKeepsPriorValue ==
    (eOut.done /\ NothingToLoad(eCall)) =>
        /\ ~ eOut.threw
        /\ eOut.value = eCall.where

\* The boxed loader ran on a node without its key but with an unknown key.
C19_Witness ==
    /\ eOut.done
    /\ eCall.loader = "boxed"
    /\ eCall.child = Absent
    /\ eCall.unknown = BadScalar
    /\ eOut.value = Boxed(4096)


-----------------------------------------------------------------------------
(* Claims about the writer.                                                *)

\* C20 (as claimed): the nesting level a writer's process() sees is the number
\* of scoped() calls that writer itself has open; scoped() entries and exits
\* of another writer, nested around it or not, never change it.
C20_NestingCounterPerRender ==
    \A w \in Writers :
       wSeen[w].seen => wSeen[w].offset = wSeen[w].own * OneOffset

-----------------------------------------------------------------------------
(* Claims about the text the writer emits.                                 *)

\* The lines of a text: the runs between newlines, the empty run after a last
\* newline left out.
RECURSIVE LinesOf(_)
LinesOf(text) ==
    IF text = << >> THEN << >>
    ELSE LET j == nextNewline(text, 1)
         IN  IF j = 0 THEN << text >>
             ELSE << SubSeq(text, 1, j - 1) >> \o LinesOf(SubSeq(text, j + 1, Len(text)))

RECURSIVE Indentation(_)
Indentation(line) ==
    IF line = << >> \/ Head(line) # " " THEN 0 ELSE 1 + Indentation(Tail(line))

\* C21 (as claimed): every line of the text process() returns at nesting depth
\* d starts with 4*d blanks, whether the line comes from the documentation
\* template or from a multi-line value substituted into it. The statement is
\* made for templates whose last line ends in a newline, and of the lines
\* that are not empty.
C21_EveryLineIndented ==
    (/\ fOut.done /\ fCall.fn = "process" /\ ~ fOut.threw
     /\ fCall.doc # << >> /\ fCall.doc[Len(fCall.doc)] = "nl") =>
        \A i \in 1 .. Len(LinesOf(fOut.text)) :
           LinesOf(fOut.text)[i] # << >> =>
              Indentation(LinesOf(fOut.text)[i]) >= OneOffset * fCall.levels

\* C22: the writer renders an infinite maximum history line count as -1 and a
\* finite count as its number, so that, in a template with a replacement
\* field, the text for Infinite differs from the text for every finite count,
\* the count zero included.
C22_InfiniteRendersSentinel ==
    (fOut.done /\ fCall.fn = "format" /\ fields(fCall.doc) = 1) =>
        /\ ~ fOut.threw
        /\ fCall.v = Infinite =>
              fOut.text = substitute(replaceCommentPlaceholder(fCall.doc),
                                     << << "-", "1" >> >>)
        /\ fCall.v # Infinite =>
              /\ fOut.text = substitute(replaceCommentPlaceholder(fCall.doc),
                                        << digitsOf(fCall.v.value) >>)
              /\ fOut.text # formatMaxHistoryLineCount(fCall.doc, Infinite).text

C22_Witness ==
    /\ fOut.done /\ fCall.fn = "format" /\ fields(fCall.doc) = 1
    /\ fCall.v = LineCount(0)
    /\ fOut.text # formatMaxHistoryLineCount(fCall.doc, Infinite).text

-----------------------------------------------------------------------------
(* Claims about the typed entries.                                         *)

\* C23 (as claimed): every mutating operation of a typed entry (assignment of
\* a value by copy or move, mutation through value(), copy or move assignment
\* from another entry of the same type) leaves the documentation template of
\* the entry it was made on equal to the template the type was defined with.
C23_DocumentationImmutable ==
    cLast.op # "none" => cEntry[cLast.on].documentation = DocValue

-----------------------------------------------------------------------------
(* Claims about the binding table after accumulation steps.                *)

\* Runtime flags of the queries an accumulation step can affect: every
\* combination of the flags that a filter of an entry, or of a built-in record
\* for a trigger of an entry, mentions (Select and Insert).
StepFlags == { 0, 8, 16, 24 }

\* The queries on a list that an accumulation step can affect.
StepQueries(list) ==
    [ input : EntryInputs[list], modifiers : EntryModifiers, actualModeFlags : StepFlags ]

\* C24: after any sequence of accumulation steps from the built-in table,
\* every record of every binding list has at least one action, so apply()
\* never hands out an empty list and binding[0] of a record exists.
C24_ActionListsNonEmpty ==
    /\ \A list \in Lists :
          \A i \in 1 .. Len(inputMappings[list]) :
             Len(inputMappings[list][i].binding) >= 1
    /\ \A k \in 1 .. Len(entries) :
          \A flags \in StepFlags :
             apply(inputMappings[entries[k].list], entries[k].input,
                   entries[k].modifiers, flags) # << >>

C24_Witness ==
    /\ Len(entries) = MaxEntries
    /\ \E list \in Lists :
          /\ Len(inputMappings[list]) > Len(defaultInputMappings[list])
          /\ \E i \in 1 .. Len(defaultInputMappings[list]) :
                Len(inputMappings[list][i].binding) > 1


\* C25: resolution priority is stable under accumulation. For every query
\* that resolved to a record before an accumulation step, apply() returns the
\* record at the same position after the step, with the old action list or
\* the old list plus the new action at its end; a query that goes from no
\* match to a match resolves to the newly appended last record.
C25_PriorityStable ==
    [][ entries' # entries =>
          \A e \in { entries'[Len(entries')] } :
             \A old \in { inputMappings[e.list] }, new \in { inputMappings'[e.list] } :
                \A q \in StepQueries(e.list) :
                   \A p \in { applyIndex(old, q.input, q.modifiers, q.actualModeFlags) },
                      r \in { applyIndex(new, q.input, q.modifiers, q.actualModeFlags) } :
                      /\ p # 0 =>
                            /\ r = p
                            /\ new[r].binding \in
                                  { old[p].binding, Append(old[p].binding, e.action) }
                      /\ (p = 0 /\ r # 0) =>
                            /\ Len(new) = Len(old) + 1
                            /\ r = Len(new)
                            /\ new[r].binding = << e.action >> ]_vars

C25_Witness ==
    /\ Len(entries) = 2
    /\ \E q \in StepQueries(entries[1].list) :
          LET p == applyIndex(defaultInputMappings[entries[1].list],
                              q.input, q.modifiers, q.actualModeFlags)
          IN  /\ p # 0
              /\ inputMappings[entries[1].list][p].binding =
                    Append(defaultInputMappings[entries[1].list][p].binding,
                           entries[1].action)
    /\ entries[2].list # entries[1].list
    /\ \E q \in StepQueries(entries[2].list) :
          /\ applyIndex(defaultInputMappings[entries[2].list],
                        q.input, q.modifiers, q.actualModeFlags) = 0
          /\ applyIndex(inputMappings[entries[2].list],
                        q.input, q.modifiers, q.actualModeFlags)
                = Len(inputMappings[entries[2].list])

\* The records of a list that no query resolves to: for every value of the
\* runtime flags an earlier record of the list is the first match for the
\* record's own trigger and modifiers.
Shadowed(bindings) ==
    { i \in 1 .. Len(bindings) :
        \A flags \in AllModeFlags :
           applyIndex(bindings, bindings[i].input, bindings[i].modifiers, flags) # i }

\* C26 (as claimed): every record of the built-in binding table is reachable:
\* for each record of the key, character and mouse lists there is a query
\* (modifiers, trigger, runtime flags) for which apply() returns that record.
C26_BuiltinRecordsReachable ==
    entries = << >> => \A list \in Lists : Shadowed(inputMappings[list]) = {}

-----------------------------------------------------------------------------
(* Claims about the order of the profiles section.                         *)

\* The section with its entries listed in the order p.
Permuted(section, p) ==
    [ section EXCEPT !.entries = [ i \in 1 .. Len(section.entries) |->
                                     section.entries[p[i]] ] ]

\* C27: the result of loading the profiles section does not depend on the
\* order of its entries: every permutation of the entries of the document
\* loaded yields the same profiles map, a non-default profile listed before
\* the default profile's entry inheriting the same loaded baseline as one
\* listed after it.
C27_ProfileOrderIrrelevant ==
    (pc = "loaded" /\ document.profiles.kind = "map") =>
        \A p \in Permutations(1 .. Len(document.profiles.entries)) :
           LET other == [ document EXCEPT !.profiles = Permuted(document.profiles, p) ]
           IN  /\ load(DefaultConfig, other).config.profiles = config.profiles
               /\ load(DefaultConfig, other).escaped = escaped

C27_Witness ==
    /\ pc = "loaded" /\ ~ escaped
    /\ document.profiles.kind = "map"
    /\ Len(document.profiles.entries) = 2
    /\ document.profiles.entries[1].name = "work"
    /\ document.profiles.entries[1].maximized = Absent
    /\ document.profiles.entries[2].name = config.defaultProfileName
    /\ document.profiles.entries[2].maximized = "true"
    /\ config.profiles["work"].maximized = TRUE

-----------------------------------------------------------------------------
(* Claims about the rendering of a binding record.                         *)

\* C28 (as claimed): the writer's rendering of a binding record reflects the
\* whole record. A record of the same list with the same modifiers and trigger
\* that differs in its mode filter, or in any action of its action list,
\* renders to a different text; for key, character and mouse records.
C28_RenderingReflectsRecord ==
    (fOut.done /\ fCall.fn = "formatInputMapping") =>
        \A w \in MappingRecords[fCall.list] :
           (w.modes # fCall.v.modes \/ w.binding # fCall.v.binding) =>
              << formatInputMapping(fCall.list, w) >> # fOut.text

-----------------------------------------------------------------------------
(* Claims about the session manager.                                       *)

\* C29: isAllowedToChangeTabs refuses a change request exactly when the
\* absolute time elapsed since the recorded last tab change is less than
\* 100 ms, and allows it otherwise; the check never modifies the recorded time
\* of the last tab change, the session list or the active session.
C29_TabChangeThrottle ==
    /\ [] ( sAllowed.done =>
               ( ~ sAllowed.value <=>
                    ( /\ sAllowed.now - sLastTabChange < 100
                      /\ sLastTabChange - sAllowed.now < 100 ) ) )
    /\ [][ sAllowed' # sAllowed =>
              /\ sLastTabChange' = sLastTabChange
              /\ sSessions' = sSessions
              /\ sActiveSession' = sActiveSession ]_vars

C29_Witness ==
    /\ sAllowed.done /\ sAllowed.value
    /\ sAllowed.now - sLastTabChange = 100
    /\ sSessions # << >>

-----------------------------------------------------------------------------
(* Claims about the window margins.                                        *)

\* C30 (as claimed): scaling window margins preserves both components: m * 1
\* equals m, and for an integer factor k the result has horizontal =
\* k * m.horizontal and vertical = k * m.vertical.
C30_ScalingKeepsBothMargins ==
    (gOut.done /\ gCall.halves % 2 = 0) =>
        LET k == gCall.halves \div 2
        IN  /\ k = 1 => gOut.value = gCall.margin
            /\ gOut.value.horizontal = k * gCall.margin.horizontal
            /\ gOut.value.vertical = k * gCall.margin.vertical

=============================================================================
